---------------------------- MODULE Spec2Model ----------------------------
(***************************************************************************)
(* A model of the storage and transaction core of MyBustub: the           *)
(* hierarchical lock manager with its deadlock detector, the transaction  *)
(* manager, the executors that take locks, the LRU-K replacer, the buffer *)
(* pool manager and the latch-crabbed B+tree.                              *)
(*                                                                         *)
(* Each subsystem has its own variables and its own specification; a      *)
(* specification leaves the variables of the other subsystems unchanged.  *)
(***************************************************************************)
EXTENDS Integers, Sequences, FiniteSets, TLC

(***************************************************************************)
(* Bounds of the model.                                                    *)
(***************************************************************************)
NumTxns == 3
NumTables == 2
NumRows == 2
NumGraphTxns == 4
NumLMTxns == 2
NumLMTables == 1
NumLMRows == 1
NumTxTxns == 2
\* the replacer on its own: frames, its parameter k, and a cap on the logical clock
NumFrames == 6
K == 2
MaxTimestamp == 6
\* the buffer pool: frames of the pool, page ids handed out, pins on one page
PoolSize == 2
MaxPages == 3
MaxPin == 2
MaxPoolClock == 5
MaxData == 1
\* the page guard objects of the client, and the Drop calls made on one of them
NumGuards == 2
KeysPerThread == 3
MaxSplitSize == 4
MaxSplitKey == 6
\* the pages one call of the tree can have pinned at once
MaxCallFrames == 4
MaxDrops == 2
\* the B+tree: keys, threads, and the capacities of leaf and internal pages
MaxKey == 7
NumThreads == 2
LeafMaxSize == 2
InternalMaxSize == 2
INTERNAL_PAGE_SIZE == 3
MaxOpsKey == 8

(***************************************************************************)
(* Program constants.                                                      *)
(***************************************************************************)
INVALID_TXN_ID == -1
INVALID_PAGE_ID == -1
HEADER_PAGE_ID == 0

Txns == 1..NumTxns
Tables == 1..NumTables
Rows == 1..NumRows
\* every row (RID) lives in one table
TableOf(rid) == 1
GraphTxns == 1..NumGraphTxns
\* the transactions, tables and rows that the clients of SpecLM use
LMTxns == 1..NumLMTxns
LMTables == 1..NumLMTables
LMRows == 1..NumLMRows
\* the transactions that run executors in SpecTxn
TxTxns == 1..NumTxTxns

LockModes == {"IS", "IX", "S", "SIX", "X"}
RowModes == {"S", "X"}
IsoLevels == {"READ_UNCOMMITTED", "READ_COMMITTED", "REPEATABLE_READ"}

VARIABLES
    (* ---- transactions ---- *)
    txnState,       \* txn -> GROWING | SHRINKING | COMMITTED | ABORTED
    iso,            \* txn -> isolation level
    abortReason,    \* txn -> reason of the last TransactionAbortException, or "none"
    tableLockSet,   \* txn -> [mode -> set of table oids]     (the five table lock sets)
    rowLockSet,     \* txn -> [S, X -> set of <<oid, rid>>]    (the two row lock sets)
    (* ---- lock manager ---- *)
    tableQ,         \* oid -> request_queue_ of table_lock_map_[oid]
    tableUpg,       \* oid -> upgrading_ of that queue
    rowQ,           \* rid -> request_queue_ of row_lock_map_[rid]
    rowUpg,         \* rid -> upgrading_ of that queue
    pc,             \* txn -> position of the thread that runs the transaction
    waitOn,         \* txn -> the request the thread is blocked on in cv_.wait
    notified,       \* threads asleep in cv_.wait that a notify_all has reached
    waits_for,      \* the detector's waits_for_ graph: txn -> vector of txns
    cycleRes,       \* what the last HasCycle call returned
    op,             \* txn -> the call (executor, commit, abort) its thread is inside
    table_lock_map_,       \* the oids that have a queue in table_lock_map_
    row_lock_map_,         \* the rids that have a queue in row_lock_map_
    table_lock_map_latch_, \* the threads that hold table_lock_map_latch_ (none or one)
    row_lock_map_latch_,   \* the threads that hold row_lock_map_latch_ (none or one)
    mpc,            \* thread -> its position between the map accesses of its call
    (* ---- table heap, index and write sets ---- *)
    heap,           \* the tuples of table 1 in RID order: their TupleMeta
    index,          \* the RIDs that have an entry in the index of table 1
    writeSet,       \* txn -> its table write set (a deque of write records)
    indexWriteSet,  \* txn -> its index write set
    scanned,        \* txn -> the RIDs its sequential scans have emitted
    (* ---- LRU-K replacer ---- *)
    current_timestamp_, \* the logical clock
    node_store_,    \* frame id -> LRUKNode, for the frames the map holds
    frames_,        \* the vector of LRUKHeap (position 0 is the root)
    curr_size_,     \* the number of evictable frames
    evictRes,       \* what the last Evict call returned
    (* ---- buffer pool manager ---- *)
    pages_,         \* frame id -> page id, pin count, dirty flag and bytes of the frame
    page_table_,    \* page id -> frame id, for the resident pages
    free_list_,     \* the list of free frames
    next_page_id_,  \* the page id allocator
    disk_,          \* page id -> the bytes the disk manager holds for it
    bpmRes,         \* what the last call of the buffer pool manager returned
    (* ---- page guards ---- *)
    guards,         \* guard object -> the page it owns, its dirty bit, its Drop calls
    (* ---- B+tree ---- *)
    treePages,      \* page id -> the B+tree page stored under that id
    root_page_id_,  \* root_page_id_ of the header page
    latch,          \* page id -> the thread that holds its write latch, 0 when free
    tpc,            \* thread -> its position inside Insert
    tkey,           \* thread -> the key of its running Insert
    todo,           \* thread -> the keys it has still to insert
    ctx,            \* thread -> the Context of its running Insert
    tpage,          \* thread -> the page its descent stands on
    rets,           \* thread -> the values its Insert calls have returned
    iter,           \* the index iterator of the reading thread
    emitted         \* the keys the iteration has produced, in order

\* the key sets of the two lock maps, their mutexes, and where each thread stands
\* between its accesses to them; a specification that takes a lock-manager call as
\* one step leaves them alone
mapVars == <<table_lock_map_, row_lock_map_, table_lock_map_latch_, row_lock_map_latch_, mpc>>

lmVars == <<txnState, iso, abortReason, tableLockSet, rowLockSet, tableQ, tableUpg,
            rowQ, rowUpg, pc, waitOn, notified, waits_for, cycleRes, op, mapVars>>

graphVars == <<waits_for, cycleRes>>

txVars == <<heap, index, writeSet, indexWriteSet, scanned>>

replacerVars == <<current_timestamp_, node_store_, frames_, curr_size_, evictRes>>

poolVars == <<pages_, page_table_, free_list_, next_page_id_, disk_, bpmRes>>

treeVars == <<treePages, root_page_id_, latch, tpc, tkey, todo, ctx, tpage, rets, iter, emitted>>

guardVars == <<guards>>

storeVars == <<replacerVars, poolVars, treeVars, guardVars>>

(***************************************************************************)
(* Small helpers on sequences and sets.                                    *)
(***************************************************************************)
RECURSIVE SortedSeq(_)
SortedSeq(S) ==
    IF S = {} THEN << >>
    ELSE LET m == CHOOSE x \in S : \A y \in S : x <= y
         IN <<m>> \o SortedSeq(S \ {m})

MaxOfSeq(s) == CHOOSE x \in {s[i] : i \in 1..Len(s)} : \A j \in 1..Len(s) : s[j] <= x

RemoveAt(q, i) == [j \in 1..(Len(q) - 1) |-> IF j < i THEN q[j] ELSE q[j + 1]]

\* std::list::insert(iter, e): e is placed before position i
InsertAt(q, i, e) ==
    [j \in 1..(Len(q) + 1) |-> IF j < i THEN q[j] ELSE IF j = i THEN e ELSE q[j - 1]]

\* F applied to the value of v, which is computed once
Bind(v, F(_)) == CHOOSE y \in {F(x) : x \in {v}} : TRUE

HasTxn(q, t) == \E i \in 1..Len(q) : q[i].txn = t

IndexOfTxn(q, t) == CHOOSE i \in 1..Len(q) : q[i].txn = t /\ \A j \in 1..(i - 1) : q[j].txn # t

RemoveTxn(q, t) == SelectSeq(q, LAMBDA r : r.txn # t)

\* FirstUngranted with a fault: the upgrade request goes to the tail of the queue
EndOfQueue(q) == Len(q) + 1

\* the position of the first request that is not granted (end() when there is none)
FirstUngranted(q) ==
    IF \E i \in 1..Len(q) : ~q[i].granted
    THEN CHOOSE i \in 1..Len(q) : ~q[i].granted /\ \A j \in 1..(i - 1) : q[j].granted
    ELSE Len(q) + 1

NoWait == [kind |-> "none", oid |-> 0, rid |-> 0, mode |-> "none"]
NoOp == [kind |-> "none", stage |-> "none", oid |-> 0, pos |-> 0, end |-> 0]

\* the detector thread, next to the client threads (one per transaction)
DetectorThread == NumTxns + 1
MapThreads == Txns \cup {DetectorThread}
\* a thread that is at no access to a lock map
NoMapCall == [at |-> "none", mode |-> "none", oid |-> 0, rid |-> 0]

(***************************************************************************)
(* LockManager: the compatibility and upgrade matrices.                    *)
(***************************************************************************)
AreLocksCompatibleNoSIX(l1, l2) ==
    CASE l1 = "IS" -> l2 # "X"
      [] l1 = "IX" -> l2 \in {"IS", "IX"}
      [] l1 = "S" -> l2 \in {"IS", "S"}
      [] l1 = "SIX" -> l2 \in {"IS", "S"}
      [] OTHER -> FALSE

AreLocksCompatible(l1, l2) ==
    CASE l1 = "IS" -> l2 # "X"
      [] l1 = "IX" -> l2 \in {"IS", "IX"}
      [] l1 = "S" -> l2 \in {"IS", "S"}
      [] l1 = "SIX" -> l2 = "IS"
      [] OTHER -> FALSE

CanLockUpgrade(curr_lock_mode, requested_lock_mode) ==
    CASE curr_lock_mode = "IS" -> requested_lock_mode # "IS"
      [] curr_lock_mode \in {"S", "IX"} -> requested_lock_mode \in {"X", "SIX"}
      [] curr_lock_mode = "SIX" -> requested_lock_mode = "X"
      [] OTHER -> FALSE

\* "ok", or the reason of the TransactionAbortException that is thrown
CanTxnTakeLock(t, lock_mode) ==
    CASE iso[t] = "READ_UNCOMMITTED" ->
            IF lock_mode \in {"S", "IS", "SIX"} THEN "LOCK_SHARED_ON_READ_UNCOMMITTED"
            ELSE IF txnState[t] = "SHRINKING" THEN "LOCK_ON_SHRINKING"
            ELSE "ok"
      [] iso[t] = "READ_COMMITTED" ->
            IF txnState[t] = "SHRINKING" /\ lock_mode \notin {"S", "IS"}
            THEN "LOCK_ON_SHRINKING" ELSE "ok"
      [] OTHER ->
            IF txnState[t] = "SHRINKING" THEN "LOCK_ON_SHRINKING" ELSE "ok"

\* "ok", or the reason of the exception
CheckAppropriateLockOnTable(t, oid, row_lock_mode) ==
    IF row_lock_mode \in {"IX", "IS", "SIX"} THEN "ATTEMPTED_INTENTION_LOCK_ON_ROW"
    ELSE IF row_lock_mode = "X"
            /\ oid \notin tableLockSet[t]["X"]
            /\ oid \notin tableLockSet[t]["IX"]
            /\ oid \notin tableLockSet[t]["SIX"]
         THEN "TABLE_LOCK_NOT_PRESENT"
    ELSE "ok"

GetTableLockMode(t, oid) ==
    IF oid \in tableLockSet[t]["X"] THEN "X"
    ELSE IF oid \in tableLockSet[t]["IX"] THEN "IX"
    ELSE IF oid \in tableLockSet[t]["IS"] THEN "IS"
    ELSE IF oid \in tableLockSet[t]["SIX"] THEN "SIX"
    ELSE IF oid \in tableLockSet[t]["S"] THEN "S"
    ELSE "none"

GetRowLockMode(t, oid, rid) ==
    IF <<oid, rid>> \in rowLockSet[t]["X"] THEN "X"
    ELSE IF <<oid, rid>> \in rowLockSet[t]["S"] THEN "S"
    ELSE "none"

(***************************************************************************)
(* LockManager::GrantNewLocksIfPossible: walks the queue in order and      *)
(* grants each waiting request that is compatible with every granted mode; *)
(* it returns at the first request that is not (without notify_all).       *)
(***************************************************************************)
RECURSIVE GrantFrom(_, _, _, _)
GrantFrom(q, upg, i, granted_lockmode) ==
    IF i > Len(q) THEN [q |-> q, upg |-> upg, notify |-> TRUE]
    ELSE IF q[i].granted THEN GrantFrom(q, upg, i + 1, granted_lockmode)
    ELSE IF \E l2 \in granted_lockmode : ~AreLocksCompatible(q[i].mode, l2)
         THEN [q |-> q, upg |-> upg, notify |-> FALSE]
    ELSE GrantFrom([q EXCEPT ![i].granted = TRUE],
                   IF q[i].txn = upg THEN INVALID_TXN_ID ELSE upg,
                   i + 1, granted_lockmode \cup {q[i].mode})

\* GrantNewLocksIfPossible with a fault: a request that cannot be granted is
\* passed over and the requests behind it are tried
RECURSIVE GrantSkipping(_, _, _, _)
GrantSkipping(q, upg, i, granted_lockmode) ==
    IF i > Len(q) THEN [q |-> q, upg |-> upg, notify |-> TRUE]
    ELSE IF q[i].granted \/ \E l2 \in granted_lockmode : ~AreLocksCompatible(q[i].mode, l2)
         THEN GrantSkipping(q, upg, i + 1, granted_lockmode)
    ELSE GrantSkipping([q EXCEPT ![i].granted = TRUE],
                       IF q[i].txn = upg THEN INVALID_TXN_ID ELSE upg,
                       i + 1, granted_lockmode \cup {q[i].mode})

GrantPassingOver(q, upg) ==
    GrantSkipping(q, upg, 1, {q[i].mode : i \in {j \in 1..Len(q) : q[j].granted}})

GrantNewLocksIfPossible(q, upg) ==
    GrantFrom(q, upg, 1, {q[i].mode : i \in {j \in 1..Len(q) : q[j].granted}})

(***************************************************************************)
(* The result of a lock-manager call: what it returns (out: "true",        *)
(* "false", "throw", or "wait" when the thread blocks in cv_.wait) and the *)
(* new values of what it writes.                                           *)
(***************************************************************************)
Throw(t, reason, q, upg, ls) ==
    [out |-> "throw", state |-> "ABORTED", reason |-> reason,
     q |-> q, upg |-> upg, ls |-> ls, notify |-> FALSE]

\* the queue part shared by LockTable and LockRow, from the enqueue to the first
\* evaluation of the wait predicate
Enqueue(t, lock_mode, q, upg, ls, key) ==
    LET req == [txn |-> t, mode |-> lock_mode, granted |-> FALSE]
        has == HasTxn(q, t)
        i0 == IndexOfTxn(q, t)
        qe == RemoveAt(q, i0)
        q1 == IF has THEN InsertAt(qe, FirstUngranted(qe), req) ELSE Append(q, req)
        upg1 == IF has THEN t ELSE upg
        ls1 == IF has THEN [ls EXCEPT ![q[i0].mode] = @ \ {key}] ELSE ls
        g == GrantNewLocksIfPossible(q1, upg1)
        mine == g.q[IndexOfTxn(g.q, t)].granted
    IN [out |-> IF mine THEN "true" ELSE "wait",
        state |-> txnState[t], reason |-> abortReason[t],
        q |-> g.q, upg |-> g.upg,
        ls |-> IF mine THEN [ls1 EXCEPT ![lock_mode] = @ \cup {key}] ELSE ls1,
        notify |-> g.notify]

LockTable(t, lock_mode, oid) ==
    LET chk == CanTxnTakeLock(t, lock_mode)
        hold_lock == GetTableLockMode(t, oid)
        q == tableQ[oid]
        upg == tableUpg[oid]
        ls == tableLockSet[t]
    IN IF chk # "ok" THEN Throw(t, chk, q, upg, ls)
       ELSE IF hold_lock = lock_mode
            THEN [out |-> "false", state |-> txnState[t], reason |-> abortReason[t],
                  q |-> q, upg |-> upg, ls |-> ls, notify |-> FALSE]
       ELSE IF hold_lock # "none" /\ ~CanLockUpgrade(hold_lock, lock_mode)
            THEN Throw(t, "INCOMPATIBLE_UPGRADE", q, upg, ls)
       ELSE IF upg # INVALID_TXN_ID THEN Throw(t, "UPGRADE_CONFLICT", q, upg, ls)
       ELSE Enqueue(t, lock_mode, q, upg, ls, oid)

LockRow(t, lock_mode, oid, rid) ==
    LET q == rowQ[rid]
        upg == rowUpg[rid]
        ls == rowLockSet[t]
        chk1 == CheckAppropriateLockOnTable(t, oid, lock_mode)
        chk2 == CanTxnTakeLock(t, lock_mode)
    IN IF (<<oid, rid>> \in ls["S"] /\ lock_mode = "S") \/ <<oid, rid>> \in ls["X"]
       THEN [out |-> "false", state |-> txnState[t], reason |-> abortReason[t],
             q |-> q, upg |-> upg, ls |-> ls, notify |-> FALSE]
       ELSE IF chk1 # "ok" THEN Throw(t, chk1, q, upg, ls)
       ELSE IF chk2 # "ok" THEN Throw(t, chk2, q, upg, ls)
       ELSE IF HasTxn(q, t) /\ upg # INVALID_TXN_ID
            THEN Throw(t, "UPGRADE_CONFLICT", q, upg, ls)
       ELSE Enqueue(t, lock_mode, q, upg, ls, <<oid, rid>>)

\* StateAfterUnlock with a fault: READ_COMMITTED shrinks on a shared unlock too
StateAfterUnlockSharedToo(t, unlock_mode, isRow) ==
    CASE iso[t] = "READ_UNCOMMITTED" ->
            IF unlock_mode = "X" THEN "SHRINKING" ELSE txnState[t]
      [] OTHER ->
            IF isRow \/ unlock_mode \in {"X", "S"} THEN "SHRINKING" ELSE txnState[t]

\* the new transaction state when a lock of mode unlock_mode is released
StateAfterUnlock(t, unlock_mode, isRow) ==
    CASE iso[t] = "READ_UNCOMMITTED" ->
            IF unlock_mode = "X" THEN "SHRINKING" ELSE txnState[t]
      [] iso[t] = "READ_COMMITTED" ->
            IF unlock_mode = "X" THEN "SHRINKING" ELSE txnState[t]
      [] OTHER ->
            IF isRow \/ unlock_mode \in {"X", "S"} THEN "SHRINKING" ELSE txnState[t]

UnlockTable(t, oid) ==
    LET q == tableQ[oid]
        upg == tableUpg[oid]
        ls == tableLockSet[t]
        unlock_mode == GetTableLockMode(t, oid)
    IN IF \E m \in RowModes : \E p \in rowLockSet[t][m] : p[1] = oid
       THEN Throw(t, "TABLE_UNLOCKED_BEFORE_UNLOCKING_ROWS", q, upg, ls)
       ELSE IF unlock_mode = "none"
            THEN Throw(t, "ATTEMPTED_UNLOCK_BUT_NO_LOCK_HELD", q, upg, ls)
       ELSE [out |-> "true", state |-> StateAfterUnlock(t, unlock_mode, FALSE),
             reason |-> abortReason[t],
             q |-> RemoveTxn(q, t), upg |-> upg,
             ls |-> [ls EXCEPT ![unlock_mode] = @ \ {oid}], notify |-> TRUE]

UnlockRow(t, oid, rid, force) ==
    LET q == rowQ[rid]
        upg == rowUpg[rid]
        ls == rowLockSet[t]
        unlock_mode == GetRowLockMode(t, oid, rid)
    IN IF unlock_mode = "none"
       THEN Throw(t, "ATTEMPTED_UNLOCK_BUT_NO_LOCK_HELD", q, upg, ls)
       ELSE [out |-> "true",
             state |-> IF force THEN txnState[t] ELSE StateAfterUnlock(t, unlock_mode, TRUE),
             reason |-> abortReason[t],
             q |-> RemoveTxn(q, t), upg |-> upg,
             ls |-> [ls EXCEPT ![unlock_mode] = @ \ {<<oid, rid>>}], notify |-> TRUE]

\* a wake-up that returns false for an aborted transaction and leaves its
\* request in the queue
WakeUpKeepsRequest(t, q, upg, ls, key) ==
    [out |-> IF txnState[t] \in {"ABORTED", "COMMITTED"} THEN "false" ELSE "wait",
     state |-> txnState[t], reason |-> abortReason[t],
     q |-> q, upg |-> upg, ls |-> ls, notify |-> FALSE]

\* the wait predicate of cv_.wait and the lines after it, run by a thread that wakes
WakeUp(t, q, upg, ls, key) ==
    IF txnState[t] \in {"ABORTED", "COMMITTED"}
    THEN [out |-> "false", state |-> txnState[t], reason |-> abortReason[t],
          q |-> RemoveTxn(q, t), upg |-> IF upg = t THEN INVALID_TXN_ID ELSE upg,
          ls |-> ls, notify |-> TRUE]
    ELSE LET g == GrantNewLocksIfPossible(q, upg)
             mine == g.q[IndexOfTxn(g.q, t)].granted
         IN [out |-> IF mine THEN "true" ELSE "wait",
             state |-> txnState[t], reason |-> abortReason[t],
             q |-> g.q, upg |-> g.upg,
             ls |-> IF mine THEN [ls EXCEPT ![waitOn[t].mode] = @ \cup {key}] ELSE ls,
             notify |-> g.notify]


(***************************************************************************)
(* The deadlock detector: the waits-for graph and its depth-first search.  *)
(***************************************************************************)
SeqHas(s, x) == \E i \in 1..Len(s) : s[i] = x

AddEdge(wf, t1, t2) ==
    IF SeqHas(wf[t1], t2) THEN wf ELSE [wf EXCEPT ![t1] = Append(@, t2)]

\* erases the first occurrence of t2 in t1's vector
RemoveEdge(wf, t1, t2) ==
    IF SeqHas(wf[t1], t2)
    THEN [wf EXCEPT ![t1] = RemoveAt(@, CHOOSE i \in 1..Len(@) :
                                           @[i] = t2 /\ \A j \in 1..(i - 1) : @[j] # t2)]
    ELSE wf

\* cycle is the part of the path that closed the cycle (kept for the properties)
NoCycle == [found |-> FALSE, victim |-> INVALID_TXN_ID, cycle |-> << >>]

\* the victim when next_txn is met again at position i of the path: the largest id
\* from that position to the end of the path
VictimWholePath(path, i) == MaxOfSeq(path)

VictimOnPath(path, i) == MaxOfSeq(SubSeq(path, i, Len(path)))

\* FindCycle(source_txn, path, on_path, visited, abort_txn_id), from the k-th entry of
\* waits_for_[source_txn] on; visited is passed by reference, so it is returned
RECURSIVE FindCycleFrom(_, _, _, _, _)
FindCycleFrom(wf, source_txn, k, path, visited) ==
    IF k > Len(wf[source_txn])
    THEN [found |-> FALSE, victim |-> INVALID_TXN_ID, cycle |-> << >>, visited |-> visited]
    ELSE LET next_txn == wf[source_txn][k]
         IN IF next_txn \in visited /\ SeqHas(path, next_txn)
            THEN LET i == CHOOSE j \in 1..Len(path) : path[j] = next_txn
                 IN [found |-> TRUE, victim |-> VictimOnPath(path, i),
                     cycle |-> SubSeq(path, i, Len(path)), visited |-> visited]
            ELSE Bind(FindCycleFrom(wf, next_txn, 1, Append(path, next_txn),
                                    visited \cup {next_txn}),
                      LAMBDA r : IF r.found THEN r
                                 ELSE FindCycleFrom(wf, source_txn, k + 1, path, r.visited))

FindCycle(wf, source_txn, path, visited) == FindCycleFrom(wf, source_txn, 1, path, visited)

\* HasCycle from the k-th source on, the sources sorted by txn id
RECURSIVE HasCycleFrom(_, _, _, _)
HasCycleFrom(wf, sources, k, visited) ==
    IF k > Len(sources) THEN NoCycle
    ELSE IF sources[k] \in visited THEN HasCycleFrom(wf, sources, k + 1, visited)
    ELSE Bind(FindCycle(wf, sources[k], << >>, visited \cup {sources[k]}),
              LAMBDA r : IF r.found
                         THEN [found |-> TRUE, victim |-> r.victim, cycle |-> r.cycle]
                         ELSE HasCycleFrom(wf, sources, k + 1, r.visited))

HasCycle(wf) == Bind(SortedSeq(DOMAIN wf), LAMBDA sources : HasCycleFrom(wf, sources, 1, {}))

\* the consecutive pairs of one queue: a waiting request points to its predecessor
RECURSIVE QueueEdges(_, _, _)
QueueEdges(wf, q, i) ==
    IF i > Len(q) THEN wf
    ELSE Bind(IF ~q[i].granted THEN AddEdge(wf, q[i].txn, q[i - 1].txn) ELSE wf,
              LAMBDA g : QueueEdges(g, q, i + 1))

RECURSIVE TableEdges(_, _)
TableEdges(wf, oids) ==
    IF oids = << >> THEN wf
    ELSE Bind(QueueEdges(wf, tableQ[Head(oids)], 2), LAMBDA g : TableEdges(g, Tail(oids)))

RECURSIVE RowEdges(_, _)
RowEdges(wf, rids) ==
    IF rids = << >> THEN wf
    ELSE Bind(QueueEdges(wf, rowQ[Head(rids)], 2), LAMBDA g : RowEdges(g, Tail(rids)))

EmptyGraph == [t \in GraphTxns |-> << >>]

\* waits_for_ as RunCycleDetection builds it: tables first, rows second, then each
\* vector sorted (the edges of a vector are distinct, so sorting the set is the same)
BuildWaitsFor ==
    Bind(RowEdges(TableEdges(EmptyGraph, SortedSeq(Tables)), SortedSeq(Rows)),
         LAMBDA wf : [t \in GraphTxns |-> SortedSeq({wf[t][i] : i \in 1..Len(wf[t])})])

\* the victim's own vector is cleared and it is removed from every other vector
PruneVictim(wf, v) ==
    [t \in GraphTxns |-> IF t = v THEN << >> ELSE RemoveEdge(wf, t, v)[t]]

\* while (HasCycle(&aborted_txn)) { abort it; prune it }, on the graph value g
RECURSIVE DetectLoop(_, _)
DetectLoop(g, vs) ==
    Bind(HasCycle(g),
         LAMBDA r : IF r.found
                    THEN Bind(PruneVictim(g, r.victim),
                              LAMBDA g1 : DetectLoop(g1, vs \cup {r.victim}))
                    ELSE [wf |-> g, victims |-> vs])

(***************************************************************************)
(* Threads.  A lock-manager call runs under the queue latch, so it is one  *)
(* step up to the point where the thread blocks in cv_.wait; a thread that *)
(* wakes runs the wait predicate and, if it is true, the rest of the call. *)
(***************************************************************************)
TableWaiters(oid) == {u \in Txns : pc[u] = "wait" /\ waitOn[u].kind = "table" /\ waitOn[u].oid = oid}

RowWaiters(rid) == {u \in Txns : pc[u] = "wait" /\ waitOn[u].kind = "row" /\ waitOn[u].rid = rid}

\* the continuation of the call a thread is inside once a lock call that blocked has
\* returned ok (true or false); the thread stays where it is while it waits
OpAfterLock(t, newpc, ok) ==
    IF newpc = "wait" \/ op[t].kind = "none" THEN op[t]
    ELSE IF op[t].kind = "insert"
         THEN (IF ok THEN [op[t] EXCEPT !.stage = "next"] ELSE NoOp)
    ELSE IF op[t].stage = "init"
         THEN [op[t] EXCEPT !.stage = "scan", !.pos = 1, !.end = Len(heap)]
    ELSE [op[t] EXCEPT !.stage = "read"]

ApplyTable(t, oid, mode, r) ==
    /\ txnState' = [txnState EXCEPT ![t] = r.state]
    /\ abortReason' = [abortReason EXCEPT ![t] = r.reason]
    /\ tableQ' = [tableQ EXCEPT ![oid] = r.q]
    /\ tableUpg' = [tableUpg EXCEPT ![oid] = r.upg]
    /\ tableLockSet' = [tableLockSet EXCEPT ![t] = r.ls]
    /\ pc' = [pc EXCEPT ![t] = IF r.out = "wait" THEN "wait" ELSE "run"]
    /\ waitOn' = [waitOn EXCEPT ![t] =
                     IF r.out = "wait"
                     THEN [kind |-> "table", oid |-> oid, rid |-> 0, mode |-> mode]
                     ELSE NoWait]
    /\ notified' = (IF r.notify THEN notified \cup TableWaiters(oid) ELSE notified) \ {t}
    /\ UNCHANGED <<rowQ, rowUpg, rowLockSet>>

ApplyRow(t, rid, mode, r) ==
    /\ txnState' = [txnState EXCEPT ![t] = r.state]
    /\ abortReason' = [abortReason EXCEPT ![t] = r.reason]
    /\ rowQ' = [rowQ EXCEPT ![rid] = r.q]
    /\ rowUpg' = [rowUpg EXCEPT ![rid] = r.upg]
    /\ rowLockSet' = [rowLockSet EXCEPT ![t] = r.ls]
    /\ pc' = [pc EXCEPT ![t] = IF r.out = "wait" THEN "wait" ELSE "run"]
    /\ waitOn' = [waitOn EXCEPT ![t] =
                     IF r.out = "wait"
                     THEN [kind |-> "row", oid |-> TableOf(rid), rid |-> rid, mode |-> mode]
                     ELSE NoWait]
    /\ notified' = (IF r.notify THEN notified \cup RowWaiters(rid) ELSE notified) \ {t}
    /\ UNCHANGED <<tableQ, tableUpg, tableLockSet>>

\* a client thread that is between calls on a live transaction
Idle(t) == pc[t] = "run" /\ op[t] = NoOp /\ txnState[t] \in {"GROWING", "SHRINKING"}

LockTableCall(t, lock_mode, oid) ==
    /\ Idle(t)
    /\ ApplyTable(t, oid, lock_mode, LockTable(t, lock_mode, oid))
    /\ UNCHANGED <<storeVars, mapVars, iso, graphVars, op, txVars>>

LockRowCall(t, lock_mode, rid) ==
    /\ Idle(t)
    /\ ApplyRow(t, rid, lock_mode, LockRow(t, lock_mode, TableOf(rid), rid))
    /\ UNCHANGED <<storeVars, mapVars, iso, graphVars, op, txVars>>

UnlockTableCall(t, oid) ==
    /\ Idle(t)
    /\ ApplyTable(t, oid, "none", UnlockTable(t, oid))
    /\ UNCHANGED <<storeVars, mapVars, iso, graphVars, op, txVars>>

UnlockRowCall(t, rid) ==
    /\ Idle(t)
    /\ ApplyRow(t, rid, "none", UnlockRow(t, TableOf(rid), rid, FALSE))
    /\ UNCHANGED <<storeVars, mapVars, iso, graphVars, op, txVars>>

\* a thread asleep in cv_.wait wakes (notified or spuriously)
Wake(t) ==
    /\ pc[t] = "wait"
    /\ LET w == waitOn[t]
       IN /\ IF w.kind = "table"
             THEN ApplyTable(t, w.oid, w.mode,
                             WakeUp(t, tableQ[w.oid], tableUpg[w.oid], tableLockSet[t], w.oid))
             ELSE ApplyRow(t, w.rid, w.mode,
                           WakeUp(t, rowQ[w.rid], rowUpg[w.rid], rowLockSet[t],
                                  <<w.oid, w.rid>>))
          /\ op' = [op EXCEPT ![t] = OpAfterLock(t, pc'[t], txnState[t] \notin {"ABORTED", "COMMITTED"})]
    /\ UNCHANGED <<storeVars, mapVars, iso, graphVars, txVars>>

\* one pass of the detector thread
RunCycleDetection ==
    \E g \in {BuildWaitsFor} : \E d \in {DetectLoop(g, {})} :
       /\ waits_for' = d.wf
       /\ txnState' = [t \in Txns |-> IF t \in d.victims THEN "ABORTED" ELSE txnState[t]]
       /\ notified' = IF d.victims # {} THEN notified \cup {u \in Txns : pc[u] = "wait"}
                      ELSE notified
       /\ UNCHANGED <<storeVars, mapVars, iso, abortReason, tableLockSet, rowLockSet, tableQ, tableUpg,
                      rowQ, rowUpg, pc, waitOn, cycleRes, op, txVars>>

(***************************************************************************)
(* TransactionManager::Commit and ::Abort.  ReleaseLocks unlocks the rows  *)
(* and then the tables, one lock-manager call at a time; other threads run *)
(* between the calls.                                                      *)
(***************************************************************************)
HeldRows(t) == rowLockSet[t]["S"] \cup rowLockSet[t]["X"]

HeldTables(t) == UNION {tableLockSet[t][m] : m \in LockModes}

Commit(t) ==
    /\ Idle(t)
    /\ op' = [op EXCEPT ![t] = [NoOp EXCEPT !.kind = "commit", !.stage = "release"]]
    /\ UNCHANGED <<storeVars, mapVars, txnState, iso, abortReason, tableLockSet, rowLockSet, tableQ, tableUpg,
                   rowQ, rowUpg, pc, waitOn, notified, graphVars, txVars>>

\* a client aborts a live transaction, or one that a lock call or the detector aborted
Abort(t) ==
    /\ pc[t] = "run" /\ op[t] = NoOp
    /\ txnState[t] \in {"GROWING", "SHRINKING", "ABORTED"}
    /\ op' = [op EXCEPT ![t] = [NoOp EXCEPT !.kind = "abort", !.stage = "release"]]
    /\ UNCHANGED <<storeVars, mapVars, txnState, iso, abortReason, tableLockSet, rowLockSet, tableQ, tableUpg,
                   rowQ, rowUpg, pc, waitOn, notified, graphVars, txVars>>

ReleaseLocksRow(t) ==
    /\ pc[t] = "run" /\ op[t].stage = "release"
    /\ \E p \in HeldRows(t) : ApplyRow(t, p[2], "none", UnlockRow(t, p[1], p[2], FALSE))
    /\ UNCHANGED <<storeVars, mapVars, iso, graphVars, op, txVars>>

ReleaseLocksTable(t) ==
    /\ pc[t] = "run" /\ op[t].stage = "release"
    /\ HeldRows(t) = {}
    /\ \E oid \in HeldTables(t) : ApplyTable(t, oid, "none", UnlockTable(t, oid))
    /\ UNCHANGED <<storeVars, mapVars, iso, graphVars, op, txVars>>

CommitFinish(t) ==
    /\ pc[t] = "run" /\ op[t].kind = "commit" /\ op[t].stage = "release"
    /\ HeldRows(t) = {} /\ HeldTables(t) = {}
    /\ txnState' = [txnState EXCEPT ![t] = "COMMITTED"]
    /\ op' = [op EXCEPT ![t] = [NoOp EXCEPT !.kind = "done"]]
    /\ UNCHANGED <<storeVars, mapVars, iso, abortReason, tableLockSet, rowLockSet, tableQ, tableUpg,
                   rowQ, rowUpg, pc, waitOn, notified, graphVars, txVars>>

\* ReleaseLocks has returned: Abort goes on to the write sets
AbortReleased(t) ==
    /\ pc[t] = "run" /\ op[t].kind = "abort" /\ op[t].stage = "release"
    /\ HeldRows(t) = {} /\ HeldTables(t) = {}
    /\ op' = [op EXCEPT ![t].stage = "revert"]
    /\ UNCHANGED <<storeVars, mapVars, txnState, iso, abortReason, tableLockSet, rowLockSet, tableQ, tableUpg,
                   rowQ, rowUpg, pc, waitOn, notified, graphVars, txVars>>

\* one turn of the first while loop: the newest table write record is popped and reverted
AbortRevertTable(t) ==
    /\ pc[t] = "run" /\ op[t].kind = "abort" /\ op[t].stage = "revert"
    /\ writeSet[t] # << >>
    /\ LET record == writeSet[t][Len(writeSet[t])]
       IN heap' = [heap EXCEPT ![record.rid] =
                      IF record.wtype = "DELETE"
                      THEN [@ EXCEPT !.is_deleted = FALSE]
                      ELSE [@ EXCEPT !.is_deleted = TRUE, !.delete_txn_id = t]]
    /\ writeSet' = [writeSet EXCEPT ![t] = SubSeq(@, 1, Len(@) - 1)]
    /\ UNCHANGED <<storeVars, mapVars, lmVars, index, indexWriteSet, scanned>>

\* one turn of the second while loop
AbortRevertIndex(t) ==
    /\ pc[t] = "run" /\ op[t].kind = "abort" /\ op[t].stage = "revert"
    /\ writeSet[t] = << >> /\ indexWriteSet[t] # << >>
    /\ LET record == indexWriteSet[t][Len(indexWriteSet[t])]
       IN index' = IF record.wtype = "DELETE" THEN index \cup {record.rid}
                   ELSE index \ {record.rid}
    /\ indexWriteSet' = [indexWriteSet EXCEPT ![t] = SubSeq(@, 1, Len(@) - 1)]
    /\ UNCHANGED <<storeVars, mapVars, lmVars, heap, writeSet, scanned>>

AbortFinish(t) ==
    /\ pc[t] = "run" /\ op[t].kind = "abort" /\ op[t].stage = "revert"
    /\ writeSet[t] = << >> /\ indexWriteSet[t] = << >>
    /\ txnState' = [txnState EXCEPT ![t] = "ABORTED"]
    /\ op' = [op EXCEPT ![t] = [NoOp EXCEPT !.kind = "done"]]
    /\ UNCHANGED <<storeVars, mapVars, iso, abortReason, tableLockSet, rowLockSet, tableQ, tableUpg,
                   rowQ, rowUpg, pc, waitOn, notified, graphVars, txVars>>

(***************************************************************************)
(* The executors that take locks, on table 1.  A RID is the position of    *)
(* the tuple in the heap.  An executor runs up to the next lock-manager    *)
(* call or the next access to the table heap in one step.                  *)
(***************************************************************************)
TheTable == 1

\* TableHeap::InsertTuple: the tuple is appended and its new RID is locked in X mode
InsertTuple(t) == Append(heap, [is_deleted |-> FALSE, insert_txn_id |-> t, delete_txn_id |-> 0])

\* InsertExecutor::Init.  When LockTable returns false the executor throws
\* ExecutionException("LockTable Failed") (stage "failed"); an abort exception of
\* LockTable is thrown on.
InsertInit(t) ==
    /\ Idle(t)
    /\ \E r \in {LockTable(t, "X", TheTable)} :
          /\ ApplyTable(t, TheTable, "X", r)
          /\ op' = [op EXCEPT ![t] =
                       IF r.out = "true" THEN [NoOp EXCEPT !.kind = "insert", !.stage = "next"]
                       ELSE IF r.out = "wait"
                            THEN [NoOp EXCEPT !.kind = "insert", !.stage = "init"]
                       ELSE IF r.out = "false"
                            THEN [NoOp EXCEPT !.kind = "insert", !.stage = "failed"]
                       ELSE NoOp]
    /\ UNCHANGED <<storeVars, mapVars, iso, graphVars, txVars>>

\* the ExecutionException of Init has reached the caller: the query is over, the
\* transaction goes on
InsertFailed(t) ==
    /\ pc[t] = "run" /\ op[t].kind = "insert" /\ op[t].stage = "failed"
    /\ op' = [op EXCEPT ![t] = NoOp]
    /\ UNCHANGED <<storeVars, mapVars, txnState, iso, abortReason, tableLockSet, rowLockSet, tableQ, tableUpg,
                   rowQ, rowUpg, pc, waitOn, notified, graphVars, txVars>>

\* InsertExecutor::Next with a child that yields one tuple (none when the heap is full)
InsertNext(t) ==
    /\ pc[t] = "run" /\ op[t].kind = "insert" /\ op[t].stage = "next"
    /\ op' = [op EXCEPT ![t] = NoOp]
    /\ IF Len(heap) < NumRows
       THEN LET rid == Len(heap) + 1
            IN /\ heap' = InsertTuple(t)
               /\ ApplyRow(t, rid, "X", LockRow(t, "X", TheTable, rid))
               /\ writeSet' = [writeSet EXCEPT ![t] = Append(@, [wtype |-> "INSERT", rid |-> rid])]
               /\ index' = index \cup {rid}
               /\ indexWriteSet' = [indexWriteSet EXCEPT ![t] =
                                       Append(@, [wtype |-> "INSERT", rid |-> rid])]
               /\ UNCHANGED <<storeVars, mapVars, iso, graphVars, scanned>>
       ELSE UNCHANGED <<storeVars, mapVars, txnState, iso, abortReason, tableLockSet, rowLockSet, tableQ, tableUpg,
                        rowQ, rowUpg, pc, waitOn, notified, graphVars, txVars>>

\* a scan at READ_UNCOMMITTED takes no lock
TakesNoReadLocks(t) == FALSE

TakesReadLocks(t) == iso[t] # "READ_UNCOMMITTED"

ScanStart(kind) == [NoOp EXCEPT !.kind = kind, !.stage = "scan", !.pos = 1, !.end = Len(heap)]

\* SeqScanExecutor::Init, of a plain scan (kind "scan") or below a delete (kind "delete")
ScanInit(t, kind) ==
    /\ Idle(t)
    /\ IF kind = "delete"
          \/ (TakesReadLocks(t)
              /\ TheTable \notin tableLockSet[t]["X"] /\ TheTable \notin tableLockSet[t]["IX"])
       THEN LET mode == IF kind = "delete" THEN "X" ELSE "IS"
            IN \E r \in {LockTable(t, mode, TheTable)} :
                  /\ ApplyTable(t, TheTable, mode, r)
                  /\ op' = [op EXCEPT ![t] =
                               IF r.out = "throw" THEN NoOp
                               ELSE IF r.out = "wait"
                                    THEN [NoOp EXCEPT !.kind = kind, !.stage = "init"]
                               ELSE ScanStart(kind)]
       ELSE /\ op' = [op EXCEPT ![t] = ScanStart(kind)]
            /\ UNCHANGED <<txnState, abortReason, tableLockSet, rowLockSet, tableQ, tableUpg,
                           rowQ, rowUpg, pc, waitOn, notified>>
    /\ UNCHANGED <<storeVars, mapVars, iso, graphVars, txVars>>

\* SeqScanExecutor::Next up to the row lock: a tombstone is skipped, another tuple is locked
ScanNext(t) ==
    /\ pc[t] = "run" /\ op[t].stage = "scan" /\ op[t].pos <= op[t].end
    /\ LET rid == op[t].pos
           kind == op[t].kind
       IN IF heap[rid].is_deleted
          THEN /\ op' = [op EXCEPT ![t].pos = rid + 1]
               /\ UNCHANGED <<txnState, abortReason, tableLockSet, rowLockSet, tableQ, tableUpg,
                              rowQ, rowUpg, pc, waitOn, notified>>
          ELSE IF kind = "delete"
                  \/ (TakesReadLocks(t) /\ <<TheTable, rid>> \notin rowLockSet[t]["X"])
          THEN LET mode == IF kind = "delete" THEN "X" ELSE "S"
               IN \E r \in {LockRow(t, mode, TheTable, rid)} :
                     /\ ApplyRow(t, rid, mode, r)
                     /\ op' = [op EXCEPT ![t] =
                                  IF r.out = "throw" THEN NoOp
                                  ELSE IF r.out = "wait" THEN op[t]
                                  ELSE [op[t] EXCEPT !.stage = "read"]]
          ELSE /\ op' = [op EXCEPT ![t].stage = "read"]
               /\ UNCHANGED <<txnState, abortReason, tableLockSet, rowLockSet, tableQ, tableUpg,
                              rowQ, rowUpg, pc, waitOn, notified>>
    /\ UNCHANGED <<storeVars, mapVars, iso, graphVars, txVars>>

\* SeqScanExecutor::Next after the row lock: the tuple is read again; a live tuple is
\* emitted (and DeleteExecutor::Next tombstones it), a tombstone is force-unlocked
ScanRead(t) ==
    /\ pc[t] = "run" /\ op[t].stage = "read"
    /\ LET rid == op[t].pos
           kind == op[t].kind
           next == [op EXCEPT ![t].stage = "scan", ![t].pos = rid + 1]
       IN IF ~heap[rid].is_deleted
          THEN /\ op' = next
               /\ IF kind = "delete"
                  THEN /\ heap' = [heap EXCEPT ![rid].is_deleted = TRUE,
                                               ![rid].delete_txn_id = t]
                       /\ writeSet' = [writeSet EXCEPT ![t] =
                                          Append(@, [wtype |-> "DELETE", rid |-> rid])]
                       /\ index' = index \ {rid}
                       /\ indexWriteSet' = [indexWriteSet EXCEPT ![t] =
                                               Append(@, [wtype |-> "DELETE", rid |-> rid])]
                       /\ UNCHANGED scanned
                  ELSE /\ scanned' = [scanned EXCEPT ![t] = @ \cup {rid}]
                       /\ UNCHANGED <<heap, index, writeSet, indexWriteSet>>
               /\ UNCHANGED <<txnState, abortReason, tableLockSet, rowLockSet, tableQ, tableUpg,
                              rowQ, rowUpg, pc, waitOn, notified>>
          ELSE IF kind = "delete" \/ TakesReadLocks(t)
          THEN /\ \E r \in {UnlockRow(t, TheTable, rid, TRUE)} :
                     /\ ApplyRow(t, rid, "none", r)
                     /\ op' = IF r.out = "throw" THEN [op EXCEPT ![t] = NoOp] ELSE next
               /\ UNCHANGED txVars
          ELSE /\ op' = next
               /\ UNCHANGED <<txnState, abortReason, tableLockSet, rowLockSet, tableQ, tableUpg,
                              rowQ, rowUpg, pc, waitOn, notified, txVars>>
    /\ UNCHANGED <<storeVars, mapVars, iso, graphVars>>

\* the iterator is at its end: Next returns false
ScanEnd(t) ==
    /\ pc[t] = "run" /\ op[t].stage = "scan" /\ op[t].pos > op[t].end
    /\ op' = [op EXCEPT ![t] = NoOp]
    /\ UNCHANGED <<storeVars, mapVars, txnState, iso, abortReason, tableLockSet, rowLockSet, tableQ, tableUpg,
                   rowQ, rowUpg, pc, waitOn, notified, graphVars, txVars>>

(***************************************************************************)
(* The storage layer as its constructors leave it.                         *)
(***************************************************************************)
Frames == 0..(NumFrames - 1)
PoolFrames == 0..(PoolSize - 1)
Keys == 1..MaxKey
Threads == 1..NumThreads

EmptyMap == [x \in {} |-> 0]

NoEvict == [ok |-> FALSE, frame |-> -1]

InitReplacer ==
    /\ current_timestamp_ = 0
    /\ node_store_ = EmptyMap
    /\ frames_ = << >>
    /\ curr_size_ = 0
    /\ evictRes = NoEvict

NoPage == [page_id |-> INVALID_PAGE_ID, pin_count |-> 0, is_dirty |-> FALSE, data_ |-> 0]

\* no call of the buffer pool manager has returned yet
NoCall == [ok |-> FALSE, page_id |-> INVALID_PAGE_ID]

\* the guard objects of the client
Guards == 1..NumGuards

\* a guard variable that is not in scope
NoGuard == [live |-> FALSE, page_ |-> INVALID_PAGE_ID, is_dirty_ |-> FALSE, drops |-> 0]

InitPool ==
    /\ guards = [g \in Guards |-> NoGuard]
    /\ pages_ = [f \in PoolFrames |-> NoPage]
    /\ page_table_ = EmptyMap
    /\ free_list_ = [i \in 1..PoolSize |-> i - 1]
    /\ next_page_id_ = 0
    /\ disk_ = [p \in 0..(MaxPages - 1) |-> 0]
    /\ bpmRes = NoCall

NoContext == [header_page_ |-> FALSE, root_page_id_ |-> INVALID_PAGE_ID, write_set_ |-> << >>]

NoIter == [state |-> "none", page_id_ |-> INVALID_PAGE_ID, index_ |-> 0]

\* the tree after its constructor: the header page holds no root
InitTree ==
    /\ treePages = << >>
    /\ root_page_id_ = INVALID_PAGE_ID
    /\ latch = EmptyMap
    /\ tpc = [t \in Threads |-> "idle"]
    /\ tkey = [t \in Threads |-> 0]
    /\ ctx = [t \in Threads |-> NoContext]
    /\ tpage = [t \in Threads |-> INVALID_PAGE_ID]
    /\ rets = [t \in Threads |-> {}]
    /\ iter = NoIter
    /\ emitted = << >>

InitStore ==
    /\ InitReplacer
    /\ InitPool
    /\ InitTree
    /\ todo = [t \in Threads |-> {}]

(***************************************************************************)
(* The initial state of the lock manager and of the transactions: every    *)
(* transaction has begun (GROWING), no lock has been requested.            *)
(***************************************************************************)
InitLockManager ==
    /\ txnState = [t \in Txns |-> "GROWING"]
    /\ abortReason = [t \in Txns |-> "none"]
    /\ tableLockSet = [t \in Txns |-> [m \in LockModes |-> {}]]
    /\ rowLockSet = [t \in Txns |-> [m \in RowModes |-> {}]]
    /\ tableQ = [oid \in Tables |-> << >>]
    /\ tableUpg = [oid \in Tables |-> INVALID_TXN_ID]
    /\ rowQ = [rid \in Rows |-> << >>]
    /\ rowUpg = [rid \in Rows |-> INVALID_TXN_ID]
    /\ pc = [t \in Txns |-> "run"]
    /\ waitOn = [t \in Txns |-> NoWait]
    /\ notified = {}
    /\ waits_for = EmptyGraph
    /\ cycleRes = NoCycle
    /\ op = [t \in Txns |-> NoOp]
    /\ table_lock_map_ = {}
    /\ row_lock_map_ = {}
    /\ table_lock_map_latch_ = {}
    /\ row_lock_map_latch_ = {}
    /\ mpc = [th \in MapThreads |-> NoMapCall]

InitWriteSets ==
    /\ index = {i \in 1..Len(heap) : ~heap[i].is_deleted}
    /\ writeSet = [t \in Txns |-> << >>]
    /\ indexWriteSet = [t \in Txns |-> << >>]
    /\ scanned = [t \in Txns |-> {}]

(***************************************************************************)
(* SpecLM: client threads call the lock manager and the transaction        *)
(* manager directly; the detector thread runs its passes.                  *)
(***************************************************************************)
InitLM ==
    /\ InitLockManager
    /\ iso \in {[t \in Txns |-> l] : l \in IsoLevels}
    /\ heap = << >>
    /\ InitWriteSets
    /\ InitStore

NextLM ==
    \/ \E t \in LMTxns, m \in LockModes, oid \in LMTables : LockTableCall(t, m, oid)
    \/ \E t \in LMTxns, m \in LockModes, rid \in LMRows : LockRowCall(t, m, rid)
    \/ \E t \in LMTxns, oid \in LMTables : UnlockTableCall(t, oid)
    \/ \E t \in LMTxns, rid \in LMRows : UnlockRowCall(t, rid)
    \/ \E t \in LMTxns : Wake(t)
    \/ \E t \in LMTxns : Commit(t)
    \/ \E t \in LMTxns : Abort(t)
    \/ \E t \in LMTxns : ReleaseLocksRow(t)
    \/ \E t \in LMTxns : ReleaseLocksTable(t)
    \/ \E t \in LMTxns : CommitFinish(t)
    \/ \E t \in LMTxns : AbortReleased(t)
    \/ \E t \in LMTxns : AbortFinish(t)
    \/ RunCycleDetection

vars == <<lmVars, txVars, storeVars>>

SpecLM == InitLM /\ [][NextLM]_vars

(***************************************************************************)
(* C1.  In every reachable state and for every table or row lock queue,    *)
(* any two requests that are granted at the same time to different         *)
(* transactions have compatible modes under the IS/IX/S/SIX/X matrix (so   *)
(* no request was granted against an incompatible granted mode, and two    *)
(* writers never both hold X).                                             *)
(***************************************************************************)
CompatibilityMatrix ==
    {<<"IS", "IS">>, <<"IS", "IX">>, <<"IS", "S">>, <<"IS", "SIX">>,
     <<"IX", "IS">>, <<"IX", "IX">>,
     <<"S", "IS">>, <<"S", "S">>,
     <<"SIX", "IS">>}

AllQueues == {tableQ[oid] : oid \in Tables} \cup {rowQ[rid] : rid \in Rows}

C1_GrantedAreCompatible ==
    \A q \in AllQueues : \A i, j \in 1..Len(q) :
        (i # j /\ q[i].granted /\ q[j].granted /\ q[i].txn # q[j].txn)
            => <<q[i].mode, q[j].mode>> \in CompatibilityMatrix

\* two transactions share the table (both granted) while, on the row, one holds X and
\* the other's X request is blocked behind it
C1_Witness ==
    /\ \E oid \in Tables : \E i, j \in 1..Len(tableQ[oid]) :
          i # j /\ tableQ[oid][i].granted /\ tableQ[oid][j].granted
    /\ \E rid \in Rows : \E i, j \in 1..Len(rowQ[rid]) :
          /\ rowQ[rid][i].granted /\ rowQ[rid][i].mode = "X"
          /\ ~rowQ[rid][j].granted /\ rowQ[rid][j].mode = "X"

(***************************************************************************)
(* SpecGraph: the waits-for graph is built through AddEdge and RemoveEdge  *)
(* and searched by HasCycle.                                               *)
(***************************************************************************)
AddEdgeCall(t1, t2) ==
    /\ waits_for' = AddEdge(waits_for, t1, t2)
    /\ cycleRes' = NoCycle
    /\ UNCHANGED <<storeVars, mapVars, txnState, iso, abortReason, tableLockSet, rowLockSet, tableQ, tableUpg,
                   rowQ, rowUpg, pc, waitOn, notified, op, txVars>>

RemoveEdgeCall(t1, t2) ==
    /\ waits_for' = RemoveEdge(waits_for, t1, t2)
    /\ cycleRes' = NoCycle
    /\ UNCHANGED <<storeVars, mapVars, txnState, iso, abortReason, tableLockSet, rowLockSet, tableQ, tableUpg,
                   rowQ, rowUpg, pc, waitOn, notified, op, txVars>>

HasCycleCall ==
    /\ cycleRes' = HasCycle(waits_for)
    /\ UNCHANGED <<storeVars, mapVars, txnState, iso, abortReason, tableLockSet, rowLockSet, tableQ, tableUpg,
                   rowQ, rowUpg, pc, waitOn, notified, waits_for, op, txVars>>

InitGraph ==
    /\ InitLockManager
    /\ iso = [t \in Txns |-> "REPEATABLE_READ"]
    /\ heap = << >>
    /\ InitWriteSets
    /\ InitStore

NextGraph ==
    \/ \E t1, t2 \in GraphTxns : t1 # t2 /\ AddEdgeCall(t1, t2)
    \/ \E t1, t2 \in GraphTxns : t1 # t2 /\ RemoveEdgeCall(t1, t2)
    \/ HasCycleCall

SpecGraph == InitGraph /\ [][NextGraph]_vars

(***************************************************************************)
(* C7.  Whenever HasCycle finds a cycle, the part of the search path it    *)
(* reports is a cycle of the waits-for graph, and the victim is a member   *)
(* of that cycle with the highest txn id among its members; for the graph  *)
(* {1->2, 2->3, 3->1} the victim is txn 3.                                 *)
(***************************************************************************)
HasEdge(wf, a, b) == SeqHas(wf[a], b)

IsCycleOf(wf, c) ==
    /\ Len(c) >= 1
    /\ \A i \in 1..(Len(c) - 1) : HasEdge(wf, c[i], c[i + 1])
    /\ HasEdge(wf, c[Len(c)], c[1])

Graph123 == [t \in GraphTxns |-> IF t = 1 THEN <<2>> ELSE IF t = 2 THEN <<3>>
                                 ELSE IF t = 3 THEN <<1>> ELSE << >>]

C7_VictimIsMaxOnCycle ==
    LET r == HasCycle(waits_for)
    IN /\ r.found =>
            /\ IsCycleOf(waits_for, r.cycle)
            /\ SeqHas(r.cycle, r.victim)
            /\ \A i \in 1..Len(r.cycle) : r.cycle[i] <= r.victim
       /\ waits_for = Graph123 => (r.found /\ r.victim = 3)

\* HasCycle has returned a cycle whose victim is not the largest id on the search path:
\* a transaction off the cycle with a larger id was on the path before it
C7_Witness ==
    /\ cycleRes.found
    /\ cycleRes = HasCycle(waits_for)
    /\ \E t \in GraphTxns : t > cycleRes.victim /\ waits_for[1] = <<t>>
    /\ Len(cycleRes.cycle) >= 2

(***************************************************************************)
(* SpecDeadlock: three transactions take S and X locks on two tables (each *)
(* table at most once per transaction, so there are no upgrades) while     *)
(* the detector runs.  FairDeadlock adds what the scheduling guarantees:   *)
(* the detector thread runs a pass again and again, a thread that a        *)
(* notify_all has reached wakes, and a thread inside Commit or Abort goes  *)
(* on; a client whose transaction was aborted calls Abort.  Nothing forces *)
(* a client to make a new lock or commit call.                          *)
(***************************************************************************)
DLModes == {"S", "X"}

WakeNotified(t) == t \in notified /\ Wake(t)

AbortAborted(t) == txnState[t] = "ABORTED" /\ Abort(t)

\* a client locks a table it holds no lock on
LockFreshTable(t, m, oid) == GetTableLockMode(t, oid) = "none" /\ LockTableCall(t, m, oid)

InitDeadlock ==
    /\ InitLockManager
    /\ iso = [t \in Txns |-> "REPEATABLE_READ"]
    /\ heap = << >>
    /\ InitWriteSets
    /\ InitStore

NextDeadlock ==
    \/ \E t \in Txns, m \in DLModes, oid \in Tables : LockFreshTable(t, m, oid)
    \/ \E t \in Txns : Wake(t)
    \/ \E t \in Txns : Commit(t)
    \/ \E t \in Txns : AbortAborted(t)
    \/ \E t \in Txns : ReleaseLocksTable(t)
    \/ \E t \in Txns : CommitFinish(t)
    \/ \E t \in Txns : AbortReleased(t)
    \/ \E t \in Txns : AbortFinish(t)
    \/ RunCycleDetection

SpecDeadlock == InitDeadlock /\ [][NextDeadlock]_vars

FairDeadlock ==
    /\ SpecDeadlock
    /\ WF_vars(RunCycleDetection)
    /\ \A t \in Txns : WF_vars(WakeNotified(t))
    /\ \A t \in Txns : WF_vars(AbortAborted(t))
    /\ \A t \in Txns : WF_vars(ReleaseLocksTable(t))
    /\ \A t \in Txns : WF_vars(CommitFinish(t))
    /\ \A t \in Txns : WF_vars(AbortReleased(t))
    /\ \A t \in Txns : WF_vars(AbortFinish(t))

(***************************************************************************)
(* C6.  Whenever transactions are blocked in a waits-for cycle (each has   *)
(* an ungranted request on a table on which the next one holds a granted   *)
(* request of an incompatible mode), then, with the detector running, one  *)
(* transaction of the cycle is eventually ABORTED and its blocked lock     *)
(* call has returned.                                                      *)
(***************************************************************************)
\* a waits for b: a's request on some queue is not granted, b's is, and the modes conflict
WaitsFor(a, b) ==
    \E q \in AllQueues : \E i, j \in 1..Len(q) :
        /\ q[i].txn = a /\ ~q[i].granted
        /\ q[j].txn = b /\ q[j].granted
        /\ <<q[i].mode, q[j].mode>> \notin CompatibilityMatrix

Unwound(S) == \E t \in S : txnState[t] = "ABORTED" /\ pc[t] = "run"

\* the members of S wait for one another in a ring
WaitCycle(S) ==
    \E c \in [1..Cardinality(S) -> S] :
        /\ \A i, j \in DOMAIN c : i # j => c[i] # c[j]
        /\ \A i \in DOMAIN c : WaitsFor(c[i], c[(i % Cardinality(S)) + 1])

C6_CycleIsBroken ==
    \A S \in {T \in SUBSET Txns : Cardinality(T) >= 2} : WaitCycle(S) ~> Unwound(S)

\* T1 and T3 wait for each other while the detector's graph, built from each waiting
\* request's immediate predecessor, has no cycle: T1 queues behind T2, which is idle
C6_Deadlocked ==
    /\ WaitCycle({1, 3})
    /\ waits_for = BuildWaitsFor
    /\ ~HasCycle(waits_for).found
    /\ pc[2] = "run" /\ txnState[2] = "GROWING"

(***************************************************************************)
(* SpecTxn: two transactions of any isolation levels run inserts, scans and *)
(* deletes on table 1, which holds one committed tuple, and then commit or *)
(* abort.  With one table no two of them can wait for each other, so the   *)
(* detector has nothing to do and is left out.                             *)
(***************************************************************************)
CommittedTuple == [is_deleted |-> FALSE, insert_txn_id |-> 0, delete_txn_id |-> 0]

InitTxn ==
    /\ InitLockManager
    /\ iso \in {f \in [Txns -> IsoLevels] : \A t \in Txns \ TxTxns : f[t] = "REPEATABLE_READ"}
    /\ heap = <<CommittedTuple>>
    /\ InitWriteSets
    /\ InitStore

NextTxn ==
    \/ \E t \in TxTxns : InsertInit(t)
    \/ \E t \in TxTxns : InsertFailed(t)
    \/ \E t \in TxTxns : InsertNext(t)
    \/ \E t \in TxTxns, kind \in {"scan", "delete"} : ScanInit(t, kind)
    \/ \E t \in TxTxns : ScanNext(t)
    \/ \E t \in TxTxns : ScanRead(t)
    \/ \E t \in TxTxns : ScanEnd(t)
    \/ \E t \in TxTxns : Wake(t)
    \/ \E t \in TxTxns : Commit(t)
    \/ \E t \in TxTxns : Abort(t)
    \/ \E t \in TxTxns : ReleaseLocksRow(t)
    \/ \E t \in TxTxns : ReleaseLocksTable(t)
    \/ \E t \in TxTxns : CommitFinish(t)
    \/ \E t \in TxTxns : AbortReleased(t)
    \/ \E t \in TxTxns : AbortRevertTable(t)
    \/ \E t \in TxTxns : AbortRevertIndex(t)
    \/ \E t \in TxTxns : AbortFinish(t)

SpecTxn == InitTxn /\ [][NextTxn]_vars

(***************************************************************************)
(* C8.  During Abort(txn) the locks of txn are released only after every   *)
(* entry of its table and index write sets has been reversed: while an     *)
(* entry is still in a write set of an aborting txn, no other transaction  *)
(* is granted a lock on the table it wrote unless txn still holds its own  *)
(* lock there.                                                             *)
(***************************************************************************)
Unreversed(t) == op[t].kind = "abort" /\ (writeSet[t] # << >> \/ indexWriteSet[t] # << >>)

GrantedOn(q, t) == \E i \in 1..Len(q) : q[i].txn = t /\ q[i].granted

C8_NoGrantBeforeReversed ==
    \A t \in Txns : Unreversed(t) =>
        \A u \in Txns \ {t} : GrantedOn(tableQ[TheTable], u) => GrantedOn(tableQ[TheTable], t)

(***************************************************************************)
(* C9.  Abort(txn) leaves every tuple that txn inserted tombstoned         *)
(* (is_deleted = true, delete_txn_id = txn), every tuple it deleted        *)
(* un-tombstoned, and both write sets empty.                               *)
(***************************************************************************)
Aborted(t) == op[t].kind = "done" /\ txnState[t] = "ABORTED"

C9_AbortRestoresTuples ==
    \A t \in Txns : Aborted(t) =>
        /\ writeSet[t] = << >> /\ indexWriteSet[t] = << >>
        /\ \A rid \in 1..Len(heap) :
              /\ heap[rid].insert_txn_id = t =>
                    (heap[rid].is_deleted /\ heap[rid].delete_txn_id = t)
              /\ (heap[rid].is_deleted /\ heap[rid].delete_txn_id = t) =>
                    heap[rid].insert_txn_id = t

\* both transactions have aborted and a tuple that one of them inserted is visible
C9_AbortedInsertVisible ==
    /\ \A t \in TxTxns : Aborted(t)
    /\ \E rid \in 1..Len(heap) : heap[rid].insert_txn_id \in TxTxns /\ ~heap[rid].is_deleted

(***************************************************************************)
(* C10.  While a transaction that inserted a row is still uncommitted, a   *)
(* transaction scanning the table at the same isolation level has not read *)
(* that row when the level is READ_COMMITTED or REPEATABLE_READ (it blocks *)
(* until the writer commits), and is never blocked when the level is       *)
(* READ_UNCOMMITTED (it reads the uncommitted row).                        *)
(***************************************************************************)
UncommittedInsert(w, rid) ==
    /\ heap[rid].insert_txn_id = w
    /\ txnState[w] = "GROWING"
    /\ op[w].kind \notin {"commit", "abort", "done"}

C10_DirtyRead ==
    \E w, r \in TxTxns : \E rid \in 1..Len(heap) :
        /\ w # r /\ iso[w] = iso[r] /\ iso[r] = "READ_UNCOMMITTED"
        /\ UncommittedInsert(w, rid)
        /\ rid \in scanned[r]

(***************************************************************************)
(* LRUKReplacer.  A replacer is the record of its four members; every      *)
(* method is an operator from the replacer before the call to the          *)
(* replacer after it.                                                      *)
(***************************************************************************)
Replacer ==
    [current_timestamp_ |-> current_timestamp_, node_store_ |-> node_store_,
     frames_ |-> frames_, curr_size_ |-> curr_size_]

SetReplacer(r) ==
    /\ current_timestamp_' = r.current_timestamp_
    /\ node_store_' = r.node_store_
    /\ frames_' = r.frames_
    /\ curr_size_' = r.curr_size_

\* std::unordered_map: operator[]= on a key, and erase
MapPut(m, k, v) == [x \in DOMAIN m \cup {k} |-> IF x = k THEN v ELSE m[x]]
MapErase(m, k) == [x \in DOMAIN m \ {k} |-> m[x]]

\* LRUKNode(frame_id, k, timestamp): the history holds the first access
NewNode(ts) == [history_ |-> <<ts>>, is_evictable_ |-> FALSE]

\* LRUKNode::Access: the history keeps the last K timestamps
Access(node, ts) ==
    LET h == Append(node.history_, ts)
    IN [node EXCEPT !.history_ = IF Len(h) > K THEN Tail(h) ELSE h]

\* a ranks before b in the LRU-K ordering: a is the one to evict first
RanksBefore(a, b) ==
    LET ya == Len(a.history_) < K
        yb == Len(b.history_) < K
    IN IF ya # yb THEN ya ELSE a.history_[1] < b.history_[1]

\* LRUKNode::operator<  (the heap keeps its greatest node at the root)
NodeLess(a, b) == RanksBefore(b, a)

\* std::swap(frames_[i], frames_[j]), positions counted from 0
Swap(h, i, j) ==
    [x \in 1..Len(h) |-> IF x = i + 1 THEN h[j + 1] ELSE IF x = j + 1 THEN h[i + 1] ELSE h[x]]

RECURSIVE Heapify(_, _, _, _)
Heapify(ns, h, fa, end) ==
    LET left == fa * 2 + 1
        son == IF left + 1 <= end /\ NodeLess(ns[h[left + 1]], ns[h[left + 2]])
               THEN left + 1 ELSE left
    IN IF left > end THEN h
       ELSE IF NodeLess(ns[h[son + 1]], ns[h[fa + 1]]) THEN h
       ELSE Heapify(ns, Swap(h, fa, son), son, end)

RECURSIVE SiftUp(_, _, _)
SiftUp(ns, h, son) ==
    LET fa == (son - 1) \div 2
    IN IF son <= 0 THEN h
       ELSE IF NodeLess(ns[h[son + 1]], ns[h[fa + 1]]) THEN h
       ELSE SiftUp(ns, Swap(h, fa, son), fa)

\* LRUKHeap::Insert
HeapInsert(r, frame_id) ==
    [r EXCEPT !.frames_ = SiftUp(r.node_store_, Append(r.frames_, frame_id), r.curr_size_),
              !.curr_size_ = r.curr_size_ + 1]

\* LRUKHeap::Remove: the last frame takes the place of the removed one and is
\* sifted down from there
HeapRemove(r, frame_id) ==
    IF \E i \in 1..r.curr_size_ : r.frames_[i] = frame_id
    THEN LET i == (CHOOSE x \in 1..r.curr_size_ :
                      r.frames_[x] = frame_id /\ \A y \in 1..(x - 1) : r.frames_[y] # frame_id) - 1
             swapped == Swap(r.frames_, i, r.curr_size_ - 1)
             popped == SubSeq(swapped, 1, r.curr_size_ - 1)
         IN [r EXCEPT !.frames_ = Heapify(r.node_store_, popped, i, r.curr_size_ - 2),
                      !.curr_size_ = r.curr_size_ - 1]
    ELSE r

\* LRUKHeap::Pop: the replacer after the pop; the popped frame is frames_[0]
HeapPop(r) ==
    LET swapped == Swap(r.frames_, 0, r.curr_size_ - 1)
        popped == SubSeq(swapped, 1, r.curr_size_ - 1)
    IN [r EXCEPT !.frames_ = Heapify(r.node_store_, popped, 0, r.curr_size_ - 2),
                 !.curr_size_ = r.curr_size_ - 1]

\* LRUKReplacer::Evict, when curr_size_ > 0
ReplacerEvict(r) ==
    LET frame_id == r.frames_[1]
        popped == HeapPop(r)
    IN [popped EXCEPT !.node_store_ = MapErase(r.node_store_, frame_id)]

\* LRUKReplacer::RecordAccess
ReplacerRecordAccess(r, frame_id) ==
    LET ticked == [r EXCEPT !.current_timestamp_ = r.current_timestamp_ + 1]
    IN IF frame_id \notin DOMAIN r.node_store_
       THEN [ticked EXCEPT !.node_store_ =
                 MapPut(r.node_store_, frame_id, NewNode(r.current_timestamp_))]
       ELSE LET accessed == [ticked EXCEPT !.node_store_[frame_id] =
                                 Access(r.node_store_[frame_id], r.current_timestamp_)]
            IN IF r.node_store_[frame_id].is_evictable_
               THEN HeapInsert(HeapRemove(accessed, frame_id), frame_id)
               ELSE accessed

\* LRUKReplacer::SetEvictable on a frame that the map holds
ReplacerSetEvictable(r, frame_id, set_evictable) ==
    LET was == r.node_store_[frame_id].is_evictable_
        heaped == IF set_evictable /\ ~was THEN HeapInsert(r, frame_id)
                  ELSE IF ~set_evictable /\ was THEN HeapRemove(r, frame_id)
                  ELSE r
    IN [heaped EXCEPT !.node_store_[frame_id].is_evictable_ = set_evictable]

\* LRUKReplacer::Remove on an evictable frame
ReplacerRemove(r, frame_id) ==
    LET removed == HeapRemove(r, frame_id)
    IN [removed EXCEPT !.node_store_ = MapErase(r.node_store_, frame_id)]

(***************************************************************************)
(* SpecLRU: a client calls the replacer.  A frame that the map does not    *)
(* hold carries no state, so the first touch goes to the lowest such       *)
(* frame: every other choice is the same run with the frames renamed.      *)
(* SetEvictable is called on frames the map holds, as the buffer pool      *)
(* does; Remove of a frame that is not evictable stops at its assertion.   *)
(***************************************************************************)
FirstTouchInOrder(frame_id) ==
    frame_id \in DOMAIN node_store_ \/ \A g \in 0..(frame_id - 1) : g \in DOMAIN node_store_

RecordAccessCall(frame_id) ==
    /\ current_timestamp_ < MaxTimestamp
    /\ FirstTouchInOrder(frame_id)
    /\ SetReplacer(ReplacerRecordAccess(Replacer, frame_id))
    /\ UNCHANGED <<evictRes, poolVars, treeVars, lmVars, txVars, guardVars>>

SetEvictableCall(frame_id, set_evictable) ==
    /\ frame_id \in DOMAIN node_store_
    /\ SetReplacer(ReplacerSetEvictable(Replacer, frame_id, set_evictable))
    /\ UNCHANGED <<evictRes, poolVars, treeVars, lmVars, txVars, guardVars>>

RemoveCall(frame_id) ==
    /\ frame_id \in DOMAIN node_store_ => node_store_[frame_id].is_evictable_
    /\ IF frame_id \in DOMAIN node_store_
       THEN SetReplacer(ReplacerRemove(Replacer, frame_id))
       ELSE UNCHANGED <<current_timestamp_, node_store_, frames_, curr_size_>>
    /\ UNCHANGED <<evictRes, poolVars, treeVars, lmVars, txVars, guardVars>>

EvictCall ==
    /\ IF curr_size_ = 0
       THEN /\ evictRes' = NoEvict
            /\ UNCHANGED <<current_timestamp_, node_store_, frames_, curr_size_>>
       ELSE /\ evictRes' = [ok |-> TRUE, frame |-> frames_[1]]
            /\ SetReplacer(ReplacerEvict(Replacer))
    /\ UNCHANGED <<poolVars, treeVars, lmVars, txVars, guardVars>>

InitLRU ==
    /\ InitLockManager
    /\ iso = [t \in Txns |-> "REPEATABLE_READ"]
    /\ heap = << >>
    /\ InitWriteSets
    /\ InitStore

NextLRU ==
    \/ \E f \in Frames : RecordAccessCall(f)
    \/ \E f \in Frames, e \in BOOLEAN : SetEvictableCall(f, e)
    \/ \E f \in Frames : RemoveCall(f)
    \/ EvictCall

SpecLRU == InitLRU /\ [][NextLRU]_vars

\* the evictable frames of a node store
Evictable(ns) == {f \in DOMAIN ns : ns[f].is_evictable_}

\* the evictable frame that ranks first in the LRU-K ordering
RanksFirst(ns) ==
    CHOOSE f \in Evictable(ns) : \A g \in Evictable(ns) \ {f} : RanksBefore(ns[f], ns[g])

(***************************************************************************)
(* C4.  Every Evict call returns none exactly when no frame is evictable,  *)
(* and otherwise returns, and drops from the replacer, the evictable frame *)
(* that ranks first in the LRU-K ordering: fewer than k accesses before k  *)
(* accesses, then the older first access, respectively the older k-th most *)
(* recent access.                                                          *)
(***************************************************************************)
C4_EvictReturnsFirstRanked ==
    [][EvictCall =>
          /\ evictRes'.ok <=> Evictable(node_store_) # {}
          /\ evictRes'.ok =>
                /\ evictRes'.frame = RanksFirst(node_store_)
                /\ evictRes'.frame \notin DOMAIN node_store_']_vars

\* an Evict has returned a frame while another evictable frame is still tracked
C4_EvictHappened ==
    /\ evictRes.ok
    /\ Evictable(node_store_) # {}
    /\ \E f \in DOMAIN node_store_ : Len(node_store_[f].history_) = K

(***************************************************************************)
(* BufferPoolManager.  A frame is its page id, pin count, dirty flag and   *)
(* the bytes of the page (one small number stands for the 4096 bytes);     *)
(* the disk holds the bytes last written under each page id.               *)
(***************************************************************************)
\* BufferPoolManager::FlushPage on the page of a frame: the dirty flag is cleared
Flushed(pgs, frame_id) == [pgs EXCEPT ![frame_id].is_dirty = FALSE]

\* DiskManager::WritePage and ReadPage
WritePage(disk, page_id, data) == [disk EXCEPT ![page_id] = data]
ReadPage(disk, page_id) == disk[page_id]

\* Page::ResetMemory: the bytes of the frame are zeroed, nothing else
ResetMemory(pgs, frame_id) == [pgs EXCEPT ![frame_id].data_ = 0]

\* BufferPoolManager::FlushPage(page_id) on a pool: false when the page table
\* has no entry for page_id, else the frame is written and marked clean
FlushPageOn(pool, page_id) ==
    IF page_id \notin DOMAIN pool.table
    THEN [pool EXCEPT !.ok = FALSE]
    ELSE LET frame_id == pool.table[page_id]
         IN [pool EXCEPT !.ok = TRUE,
                         !.disk = WritePage(@, page_id, pool.pages[frame_id].data_),
                         !.pages = Flushed(@, frame_id)]

\* FlushIfDirty with a fault: the page is never written
FlushSkipped(pool, frame_id) == pool

\* if (pages_[frame_id].IsDirty()) FlushPage(page_id of the frame)
FlushIfDirty(pool, frame_id) ==
    IF pool.pages[frame_id].is_dirty
    THEN FlushPageOn(pool, pool.pages[frame_id].page_id)
    ELSE pool

\* EvictFrame with a fault: the mapping is erased before the page is flushed
EvictFrameEraseFirst(pool, frame_id) ==
    LET evicted_page_id == pool.pages[frame_id].page_id
        erased == [pool EXCEPT !.table = MapErase(@, evicted_page_id)]
        flushed == FlushIfDirty(erased, frame_id)
    IN [flushed EXCEPT !.pages = ResetMemory(@, frame_id)]

\* the branch of NewPage and FetchPage that reuses the frame of a victim: the
\* page in it is flushed if dirty, leaves the page table, the bytes are zeroed
EvictFrame(pool, frame_id) ==
    LET evicted_page_id == pool.pages[frame_id].page_id
        flushed == FlushIfDirty(pool, frame_id)
    IN [flushed EXCEPT !.table = MapErase(@, evicted_page_id),
                       !.pages = ResetMemory(@, frame_id)]

\* the pool as a value
Pool == [ok |-> TRUE, pages |-> pages_, table |-> page_table_, disk |-> disk_]

\* TakeFrame with a fault: the replacer is never asked for a victim
TakeFrameFreeOnly ==
    IF free_list_ # << >>
    THEN [ok |-> TRUE, frame |-> Head(free_list_), free |-> Tail(free_list_),
          r |-> Replacer, evict |-> evictRes, pages |-> pages_, table |-> page_table_,
          disk |-> disk_]
    ELSE [ok |-> FALSE, frame |-> -1, free |-> free_list_,
          r |-> Replacer, evict |-> evictRes, pages |-> pages_, table |-> page_table_,
          disk |-> disk_]

\* The frame that NewPage and FetchPage load into: the front of the free list,
\* else the victim of the replacer, whose page leaves the page table.
TakeFrame ==
    IF free_list_ # << >>
    THEN [ok |-> TRUE, frame |-> Head(free_list_), free |-> Tail(free_list_),
          r |-> Replacer, evict |-> evictRes, pages |-> pages_, table |-> page_table_,
          disk |-> disk_]
    ELSE IF curr_size_ > 0
    THEN LET ev == EvictFrame(Pool, frames_[1])
         IN [ok |-> TRUE, frame |-> frames_[1], free |-> free_list_,
             r |-> ReplacerEvict(Replacer), evict |-> [ok |-> TRUE, frame |-> frames_[1]],
             pages |-> ev.pages, table |-> ev.table, disk |-> ev.disk]
    ELSE [ok |-> FALSE, frame |-> -1, free |-> free_list_,
          r |-> Replacer, evict |-> NoEvict, pages |-> pages_, table |-> page_table_,
          disk |-> disk_]

\* the tail that NewPage and FetchPage share: the page is entered in the frame
\* and read from disk, entered in the page table, the access is recorded, the
\* frame is pinned
LoadPage(tf, page_id) ==
    /\ pages_' = [tf.pages EXCEPT ![tf.frame].page_id = page_id,
                                  ![tf.frame].data_ = ReadPage(tf.disk, page_id),
                                  ![tf.frame].pin_count = @ + 1]
    /\ page_table_' = MapPut(tf.table, page_id, tf.frame)
    /\ free_list_' = tf.free
    /\ disk_' = tf.disk
    /\ evictRes' = tf.evict
    /\ SetReplacer(ReplacerSetEvictable(ReplacerRecordAccess(tf.r, tf.frame), tf.frame, FALSE))

\* what a call of the buffer pool manager returned: a page (its id) or a
\* null pointer, true or false
ReturnedPage(page_id) == [ok |-> TRUE, page_id |-> page_id]
ReturnedNull == [ok |-> FALSE, page_id |-> INVALID_PAGE_ID]
ReturnedBool(b) == [ok |-> b, page_id |-> INVALID_PAGE_ID]

\* BufferPoolManager::NewPage as the buffer pool runs it, for a caller that may keep the page in a guard
NewPageStep ==
    /\ next_page_id_ < MaxPages
    /\ current_timestamp_ < MaxPoolClock
    /\ LET tf == TakeFrame
       IN IF tf.ok
          THEN /\ LoadPage(tf, next_page_id_)
               /\ next_page_id_' = next_page_id_ + 1
               /\ bpmRes' = ReturnedPage(next_page_id_)
          ELSE /\ evictRes' = tf.evict
               /\ bpmRes' = ReturnedNull
               /\ UNCHANGED <<current_timestamp_, node_store_, frames_, curr_size_,
                              pages_, page_table_, free_list_, next_page_id_, disk_>>
    /\ UNCHANGED <<treeVars, lmVars, txVars>>

NewPage == NewPageStep /\ UNCHANGED guardVars

\* BufferPoolManager::FetchPage as the buffer pool runs it, for a caller that may keep the page in a guard
FetchPageStep(page_id) ==
    /\ current_timestamp_ < MaxPoolClock
    /\ IF page_id \in DOMAIN page_table_
       THEN LET frame_id == page_table_[page_id]
            IN /\ pages_[frame_id].pin_count < MaxPin
               /\ SetReplacer(ReplacerSetEvictable(ReplacerRecordAccess(Replacer, frame_id),
                                                   frame_id, FALSE))
               /\ pages_' = [pages_ EXCEPT ![frame_id].pin_count = @ + 1]
               /\ bpmRes' = ReturnedPage(page_id)
               /\ UNCHANGED <<evictRes, page_table_, free_list_, disk_>>
       ELSE LET tf == TakeFrame
            IN IF tf.ok
               THEN /\ LoadPage(tf, page_id)
                    /\ bpmRes' = ReturnedPage(page_id)
               ELSE /\ evictRes' = tf.evict
                    /\ bpmRes' = ReturnedNull
                    /\ UNCHANGED <<current_timestamp_, node_store_, frames_, curr_size_,
                                   pages_, page_table_, free_list_, disk_>>
    /\ UNCHANGED <<next_page_id_, treeVars, lmVars, txVars>>

FetchPage(page_id) == FetchPageStep(page_id) /\ UNCHANGED guardVars

\* Unpinned with a fault: the dirty flag is assigned, not or-ed
UnpinnedAssign(page, is_dirty) ==
    [page EXCEPT !.pin_count = @ - 1, !.is_dirty = is_dirty]

\* --pin_count_ and is_dirty_ |= is_dirty
Unpinned(page, is_dirty) ==
    [page EXCEPT !.pin_count = @ - 1, !.is_dirty = @ \/ is_dirty]

\* BufferPoolManager::UnpinPage as the buffer pool runs it, for a caller that may keep the page in a guard
UnpinPageStep(page_id, is_dirty) ==
    /\ IF page_id \notin DOMAIN page_table_ \/ pages_[page_table_[page_id]].pin_count = 0
       THEN /\ bpmRes' = ReturnedBool(FALSE)
            /\ UNCHANGED <<current_timestamp_, node_store_, frames_, curr_size_, pages_>>
       ELSE LET frame_id == page_table_[page_id]
            IN /\ pages_' = [pages_ EXCEPT ![frame_id] = Unpinned(@, is_dirty)]
               /\ bpmRes' = ReturnedBool(TRUE)
               /\ IF pages_[frame_id].pin_count = 1
                  THEN SetReplacer(ReplacerSetEvictable(Replacer, frame_id, TRUE))
                  ELSE UNCHANGED <<current_timestamp_, node_store_, frames_, curr_size_>>
    /\ UNCHANGED <<evictRes, page_table_, free_list_, next_page_id_, disk_,
                   treeVars, lmVars, txVars>>

UnpinPage(page_id, is_dirty) == UnpinPageStep(page_id, is_dirty) /\ UNCHANGED guardVars

FlushPage(page_id) ==
    /\ LET fl == FlushPageOn(Pool, page_id)
       IN /\ pages_' = fl.pages
          /\ disk_' = fl.disk
          /\ bpmRes' = ReturnedBool(fl.ok)
    /\ UNCHANGED <<replacerVars, page_table_, free_list_, next_page_id_, treeVars, lmVars, txVars, guardVars>>

\* the replacer is not told: the node of the frame stays as it is
DeletePage(page_id) ==
    /\ IF page_id \notin DOMAIN page_table_
       THEN /\ bpmRes' = ReturnedBool(TRUE)
            /\ UNCHANGED <<pages_, page_table_, free_list_, disk_>>
       ELSE IF pages_[page_table_[page_id]].pin_count > 0
       THEN /\ bpmRes' = ReturnedBool(FALSE)
            /\ UNCHANGED <<pages_, page_table_, free_list_, disk_>>
       ELSE LET frame_id == page_table_[page_id]
                fl == FlushIfDirty(Pool, frame_id)
            IN /\ pages_' = ResetMemory(fl.pages, frame_id)
               /\ disk_' = fl.disk
               /\ page_table_' = MapErase(page_table_, page_id)
               /\ free_list_' = Append(free_list_, frame_id)
               /\ bpmRes' = ReturnedBool(TRUE)
    /\ UNCHANGED <<replacerVars, next_page_id_, treeVars, lmVars, txVars, guardVars>>

\* a caller that holds a pin on the page changes its bytes through GetData()
WriteData(page_id, data) ==
    /\ page_id \in DOMAIN page_table_
    /\ pages_[page_table_[page_id]].pin_count > 0
    /\ pages_[page_table_[page_id]].data_ # data
    /\ pages_' = [pages_ EXCEPT ![page_table_[page_id]].data_ = data]
    /\ UNCHANGED <<replacerVars, page_table_, free_list_, next_page_id_, disk_, bpmRes,
                   treeVars, lmVars, txVars, guardVars>>

InitBPM == InitLRU

\* the page ids that AllocatePage has handed out
Allocated == 0..(next_page_id_ - 1)

\* the bytes a caller writes into a page
PageData == 0..MaxData

NextBPM ==
    \/ NewPage
    \/ \E p \in Allocated : FetchPage(p)
    \/ \E p \in Allocated, d \in BOOLEAN : UnpinPage(p, d)
    \/ \E p \in Allocated : FlushPage(p)
    \/ \E p \in Allocated : DeletePage(p)
    \/ \E p \in Allocated, d \in PageData : WriteData(p, d)

SpecBPM == InitBPM /\ [][NextBPM]_vars

\* the frames that hold a resident page whose pin count is 0
UnpinnedResident == {page_table_[p] : p \in {q \in DOMAIN page_table_ : pages_[page_table_[q]].pin_count = 0}}

(***************************************************************************)
(* C3.  In every state that new_page, fetch_page, unpin_page and           *)
(* delete_page calls reach, the frames that are evictable in the replacer  *)
(* are exactly the frames that hold a resident page with pin count 0; no   *)
(* frame the replacer could choose is pinned, and size() is the number of  *)
(* resident pages with pin count 0.                                        *)
(***************************************************************************)
C3_EvictableIffUnpinnedResident ==
    /\ Evictable(node_store_) = UnpinnedResident
    /\ \A i \in 1..Len(frames_) : pages_[frames_[i]].pin_count = 0
    /\ curr_size_ = Cardinality({p \in DOMAIN page_table_ : pages_[page_table_[p]].pin_count = 0})

\* a page was deleted: its frame is on the free list and still evictable in the replacer
C3_DeletedFrameEvictable ==
    \E i \in 1..Len(free_list_) :
        /\ free_list_[i] \in Evictable(node_store_)
        /\ \A p \in DOMAIN page_table_ : page_table_[p] # free_list_[i]

\* every frame holds a page and every one of them is pinned
AllPinned ==
    /\ free_list_ = << >>
    /\ \A f \in PoolFrames : pages_[f].page_id # INVALID_PAGE_ID /\ pages_[f].pin_count > 0

\* the page ids a call can name
PageIds == 0..(MaxPages - 1)

(***************************************************************************)
(* C14.  new_page on a pool whose frames all hold pinned pages returns     *)
(* none and changes no frame, no mapping, no pin count and not the id      *)
(* counter.  On any other pool (after an unpin_page has brought a pin      *)
(* count to 0) it succeeds and returns the id one above the id the         *)
(* previous successful new_page returned: the counter at the call, which   *)
(* nothing but a successful new_page moves, and which it moves by one.     *)
(***************************************************************************)
C14_NewPageOnPinnedPool ==
    [][/\ NewPage =>
             IF AllPinned
             THEN /\ bpmRes' = ReturnedNull
                  /\ UNCHANGED <<pages_, page_table_, free_list_, next_page_id_, disk_>>
             ELSE /\ bpmRes' = ReturnedPage(next_page_id_)
                  /\ next_page_id_' = next_page_id_ + 1
                  /\ bpmRes'.page_id \in DOMAIN page_table_'
       /\ next_page_id_' # next_page_id_ => NewPage]_vars

\* new_page was refused: both frames hold pinned pages, no id was used up
C14_NewPageRefused ==
    /\ AllPinned
    /\ bpmRes = ReturnedNull
    /\ next_page_id_ = PoolSize

(***************************************************************************)
(* C15.  When new_page or fetch_page reuses the frame of a victim whose    *)
(* page is dirty, the bytes of that page are on disk under its own id      *)
(* after the call, its mapping is gone and the frame holds the new page;   *)
(* the disk copy of a page that is not resident never changes; and a       *)
(* fetch_page of a page that is not resident returns the bytes the disk    *)
(* holds for it.  So a later fetch_page of the evicted page returns the    *)
(* bytes it had when it was evicted.                                       *)
(***************************************************************************)
C15_EvictedDirtyWrittenFirst ==
    [][\A p \in PageIds :
          /\ ( /\ free_list_ = << >>
               /\ curr_size_ > 0
               /\ p \notin DOMAIN page_table_
               /\ pages_[frames_[1]].is_dirty
               /\ (p = next_page_id_ /\ NewPage) \/ FetchPage(p) ) =>
                  LET f == frames_[1]
                      q == pages_[f].page_id
                  IN /\ disk_'[q] = pages_[f].data_
                     /\ q \notin DOMAIN page_table_'
                     /\ page_table_'[p] = f
                     /\ pages_'[f].page_id = p
          /\ p \notin DOMAIN page_table_ => disk_'[p] = disk_[p]
          /\ (p \notin DOMAIN page_table_ /\ FetchPage(p) /\ bpmRes'.ok) =>
                  pages_'[page_table_'[p]].data_ = disk_[p]]_vars

\* the page the last call returned was read back into the frame of a victim
\* with the bytes it was written with before it was evicted
C15_EvictedPageReadBack ==
    \E p \in DOMAIN page_table_ :
        /\ bpmRes = ReturnedPage(p)
        /\ p < next_page_id_ - 1
        /\ evictRes = [ok |-> TRUE, frame |-> page_table_[p]]
        /\ pages_[page_table_[p]].pin_count = 1
        /\ ~pages_[page_table_[p]].is_dirty
        /\ pages_[page_table_[p]].data_ = 1
        /\ disk_[p] = 1

(***************************************************************************)
(* C16.  In every state the buffer pool reaches, the page table maps a     *)
(* page id to a frame exactly for the frames whose stored page id is not   *)
(* INVALID_PAGE_ID (and it maps that id), no two page ids map to one       *)
(* frame, and no frame of the free list is in the page table.              *)
(***************************************************************************)
C16_PageTableMatchesFrames ==
    /\ \A f \in PoolFrames :
          pages_[f].page_id # INVALID_PAGE_ID <=>
              /\ pages_[f].page_id \in DOMAIN page_table_
              /\ page_table_[pages_[f].page_id] = f
    /\ \A p \in DOMAIN page_table_ : pages_[page_table_[p]].page_id = p
    /\ \A p, q \in DOMAIN page_table_ : page_table_[p] = page_table_[q] => p = q
    /\ \A i \in 1..Len(free_list_) :
          \A p \in DOMAIN page_table_ : page_table_[p] # free_list_[i]

\* a frame of the free list still stores the id of the page deleted from it
C16_FreeFrameKeepsPageId ==
    \E i \in 1..Len(free_list_) :
        /\ pages_[free_list_[i]].page_id # INVALID_PAGE_ID
        /\ pages_[free_list_[i]].page_id \notin DOMAIN page_table_

(***************************************************************************)
(* C17.  unpin_page(p, is_dirty) returns false and changes nothing when p  *)
(* is not resident or its pin count is 0.  Otherwise it returns true, the  *)
(* pin count is one less, the dirty flag is the old flag or is_dirty, the  *)
(* frame is evictable in the replacer exactly when the new count is 0, and *)
(* no other frame, mapping, free frame, id or disk page changes.           *)
(***************************************************************************)
C17_UnpinPageContract ==
    [][\A p \in PageIds, d \in BOOLEAN :
          UnpinPage(p, d) =>
             IF p \notin DOMAIN page_table_ \/ pages_[page_table_[p]].pin_count = 0
             THEN /\ bpmRes' = ReturnedBool(FALSE)
                  /\ UNCHANGED <<pages_, page_table_, free_list_, next_page_id_, disk_,
                                 replacerVars>>
             ELSE LET f == page_table_[p]
                  IN /\ bpmRes' = ReturnedBool(TRUE)
                     /\ pages_'[f].pin_count = pages_[f].pin_count - 1
                     /\ pages_'[f].is_dirty = (pages_[f].is_dirty \/ d)
                     /\ pages_'[f].page_id = p /\ pages_'[f].data_ = pages_[f].data_
                     /\ f \in Evictable(node_store_') <=> pages_'[f].pin_count = 0
                     /\ \A g \in PoolFrames \ {f} : pages_'[g] = pages_[g]
                     /\ UNCHANGED <<page_table_, free_list_, next_page_id_, disk_>>]_vars

\* the last unpin brought a page that is dirty to pin count 0: evictable and dirty
C17_UnpinnedDirtyEvictable ==
    /\ bpmRes = ReturnedBool(TRUE)
    /\ \E p \in DOMAIN page_table_ :
          /\ pages_[page_table_[p]].pin_count = 0
          /\ pages_[page_table_[p]].is_dirty
          /\ page_table_[p] \in Evictable(node_store_)
          /\ pages_[page_table_[p]].data_ # disk_[p]

(***************************************************************************)
(* C18.  delete_page(p) returns true and changes nothing when p is not     *)
(* resident, returns false and changes nothing when p is pinned; otherwise *)
(* it returns true, the bytes of p are on disk if the frame was dirty (and *)
(* the disk is as before if not), p has no mapping and its frame is at the *)
(* back of the free list.  A fetch_page of a page that is not resident     *)
(* returns what the disk holds for it.                                     *)
(***************************************************************************)
C18_DeletePageContract ==
    [][\A p \in PageIds :
          /\ DeletePage(p) =>
                IF p \notin DOMAIN page_table_
                THEN /\ bpmRes' = ReturnedBool(TRUE)
                     /\ UNCHANGED <<pages_, page_table_, free_list_, next_page_id_, disk_>>
                ELSE IF pages_[page_table_[p]].pin_count > 0
                THEN /\ bpmRes' = ReturnedBool(FALSE)
                     /\ UNCHANGED <<pages_, page_table_, free_list_, next_page_id_, disk_>>
                ELSE LET f == page_table_[p]
                     IN /\ bpmRes' = ReturnedBool(TRUE)
                        /\ disk_' = IF pages_[f].is_dirty
                                    THEN [disk_ EXCEPT ![p] = pages_[f].data_]
                                    ELSE disk_
                        /\ page_table_' = MapErase(page_table_, p)
                        /\ free_list_' = Append(free_list_, f)
                        /\ next_page_id_' = next_page_id_
          /\ (p \notin DOMAIN page_table_ /\ free_list_ # << >> /\ FetchPage(p)) =>
                /\ bpmRes' = ReturnedPage(p)
                /\ page_table_'[p] = Head(free_list_)
                /\ pages_'[page_table_'[p]].data_ = disk_[p]]_vars

\* a page that was written and unpinned as dirty has been deleted: its bytes
\* are on disk, it has no mapping and its frame is on the free list
C18_DeletedDirtyPageOnDisk ==
    /\ bpmRes = ReturnedBool(TRUE)
    /\ \E p \in Allocated :
          /\ p \notin DOMAIN page_table_
          /\ disk_[p] = 1
          /\ \E i \in 1..Len(free_list_) : pages_[free_list_[i]].page_id = p

(***************************************************************************)
(* B+tree pages.  A page is its type, its max size, its next page id (of   *)
(* a leaf) and the used part of array_; page ids count from 1, the header  *)
(* page is page 0.                                                         *)
(***************************************************************************)
KV(key, value) == [first |-> key, second |-> value]

\* the RID stored with a key
RidOf(key) == key

\* BPlusTreeLeafPage::Init
LeafInit(max_size) ==
    [page_type |-> "LEAF_PAGE", max_size |-> max_size,
     next_page_id_ |-> INVALID_PAGE_ID, array_ |-> << >>]

\* BPlusTreeInternalPage::Init.  The tree calls it without an argument: the max
\* size is then INTERNAL_PAGE_SIZE, the capacity of a page, whatever
\* internal_max_size_ the tree was constructed with
InternalInit(max_size) ==
    [page_type |-> "INTERNAL_PAGE", max_size |-> max_size,
     next_page_id_ |-> INVALID_PAGE_ID, array_ |-> << >>]

IsLeafPage(page) == page.page_type = "LEAF_PAGE"

GetSize(page) == Len(page.array_)

IsFull(page) == GetSize(page) >= page.max_size

GetMinSize(page) ==
    IF IsLeafPage(page) THEN page.max_size \div 2 ELSE (page.max_size + 1) \div 2

\* the greatest position in lo..Len(a) whose key is not above key, lo - 1 if none
LastNotAbove(a, lo, key) ==
    LET S == {i \in lo..Len(a) : a[i].first <= key}
    IN IF S = {} THEN lo - 1 ELSE CHOOSE i \in S : \A j \in S : j <= i

\* std::upper_bound over positions lo..Len(a): the first key above key
UpperBound(a, lo, key) ==
    LET S == {i \in lo..Len(a) : key < a[i].first}
    IN IF S = {} THEN Len(a) + 1 ELSE CHOOSE i \in S : \A j \in S : i <= j

\* BPlusTreeInternalPage::Find: the child to descend into
InternalFind(page, key) == page.array_[UpperBound(page.array_, 2, key) - 1].second

\* BPlusTreeLeafPage::Insert.  On an empty page the first comparison reads
\* array_[-1]; oob is what that comparison yields.
LeafInsert(page, key, value, oob) ==
    LET a == page.array_
        above == IF Len(a) = 0 THEN oob ELSE key > a[Len(a)].first
        k == LastNotAbove(a, 1, key)
    IN IF above
       THEN [ok |-> TRUE, page |-> [page EXCEPT !.array_ = Append(a, KV(key, value))]]
       ELSE IF k > 0 /\ a[k].first = key
       THEN [ok |-> FALSE, page |-> page]
       ELSE [ok |-> TRUE, page |-> [page EXCEPT !.array_ = InsertAt(a, k + 1, KV(key, value))]]

\* BPlusTreeInternalPage::Insert(key, value, comp): the new child goes to the
\* right of the last key that is not above its key, never into slot 0
InternalInsert(page, key, value) ==
    LET a == page.array_
    IN IF Len(a) < 2 \/ key > a[Len(a)].first
       THEN [page EXCEPT !.array_ = Append(a, KV(key, value))]
       ELSE [page EXCEPT !.array_ = InsertAt(a, LastNotAbove(a, 2, key) + 1, KV(key, value))]

\* SetArray(array, begin, end), positions counted from 0
SetArray(page, array, begin, end) == [page EXCEPT !.array_ = SubSeq(array, begin + 1, end)]

(***************************************************************************)
(* BPlusTree::InsertInParent.  tree is the pages and the root id of the    *)
(* header page; c is the Context.  asserted is FALSE when the assertion on *)
(* the header latch fails.                                                 *)
(***************************************************************************)
RECURSIVE InsertInParent(_, _, _, _)
InsertInParent(tree, c, key, right_child_pid) ==
    LET left_child_pid == c.write_set_[Len(c.write_set_)]
        popped == SubSeq(c.write_set_, 1, Len(c.write_set_) - 1)
    IN IF left_child_pid = c.root_page_id_
       THEN LET new_root_pid == Len(tree.pages) + 1
                new_root == InternalInsert(
                               InternalInsert(InternalInit(tree.internal_page_size_),
                                              key, left_child_pid),
                               key, right_child_pid)
            IN [tree EXCEPT !.pages = Append(tree.pages, new_root),
                            !.root = IF c.header_page_ THEN new_root_pid ELSE tree.root,
                            !.asserted = tree.asserted /\ c.header_page_]
       ELSE LET parent_pid == popped[Len(popped)]
                parent_page == tree.pages[parent_pid]
            IN IF ~IsFull(parent_page)
               THEN [tree EXCEPT !.pages[parent_pid] =
                         InternalInsert(parent_page, key, right_child_pid)]
               ELSE LET uncle_pid == Len(tree.pages) + 1
                        array == InsertAt(parent_page.array_,
                                          UpperBound(parent_page.array_, 2, key),
                                          KV(key, right_child_pid))
                        min_size == GetMinSize(parent_page)
                        split == [tree EXCEPT !.pages =
                                     Append([tree.pages EXCEPT ![parent_pid] =
                                                SetArray(parent_page, array, 0, min_size)],
                                            SetArray(InternalInit(tree.internal_page_size_),
                                                     array, min_size, Len(array)))]
                    IN InsertInParent(split, [c EXCEPT !.write_set_ = popped],
                                      array[min_size + 1].first, uncle_pid)

\* BPlusTree::Insert from the leaf on: the insertion into a leaf with room, or
\* the split of a full leaf and the insertion of the new leaf into the parent
InsertIntoLeaf(tree, c, key, value, oob) ==
    LET leaf_pid == c.write_set_[Len(c.write_set_)]
        old_leaf == tree.pages[leaf_pid]
    IN IF ~IsFull(old_leaf)
       THEN LET ins == LeafInsert(old_leaf, key, value, oob)
            IN [ok |-> ins.ok, tree |-> [tree EXCEPT !.pages[leaf_pid] = ins.page]]
       ELSE LET it == UpperBound(old_leaf.array_, 1, key)
                array == InsertAt(old_leaf.array_, it, KV(key, value))
                new_pid == Len(tree.pages) + 1
                old_size == (old_leaf.max_size + 1) \div 2
                new_leaf == [SetArray(LeafInit(tree.leaf_max_size_), array, old_size, Len(array))
                                EXCEPT !.next_page_id_ = old_leaf.next_page_id_]
                left == [SetArray(old_leaf, array, 0, old_size)
                            EXCEPT !.next_page_id_ = new_pid]
                split == [tree EXCEPT !.pages = Append([tree.pages EXCEPT ![leaf_pid] = left],
                                                       new_leaf)]
            IN IF it = 1 \/ old_leaf.array_[it - 1].first # key
               THEN [ok |-> TRUE,
                     tree |-> InsertInParent(split, c, new_leaf.array_[1].first, new_pid)]
               ELSE [ok |-> FALSE, tree |-> tree]

(***************************************************************************)
(* The threads that insert.  A thread stops where FetchPageWrite can       *)
(* block: at the header page, at the root and at every child.  From the    *)
(* leaf on it holds every latch it needs and the pages it creates are its  *)
(* own, so the rest of Insert is one step.                                 *)
(***************************************************************************)
LatchAlwaysFree(page_id) == TRUE

\* the pages whose read latch thread t holds: GetValue and Begin keep one
\* ReadPageGuard, on the header page and then on the page of the descent
ReadHeld(t) ==
    IF tpc[t] \in {"get_header", "begin_header"} THEN {HEADER_PAGE_ID}
    ELSE IF tpc[t] \in {"get_descend", "begin_descend"} THEN {tpage[t]}
    ELSE {}

\* FetchPageWrite returns once no other guard holds the latch of the page
LatchFree(page_id) ==
    /\ page_id \notin DOMAIN latch
    /\ \A t \in Threads : page_id \notin ReadHeld(t)

\* the latches left when thread t drops every guard it holds
ReleaseAll(t) == [p \in {q \in DOMAIN latch : latch[q] # t} |-> latch[p]]

\* the tree object: its pages, the root id of the header page, the leaf max size
\* it was constructed with and the capacity of an internal page; a call starts
\* with no assertion failed and no sibling fetched.  kept holds the pages whose
\* guards the frames of DeleteEntry have not reset, read the pages DeleteEntry
\* has fetched with FetchPageRead, and again tells that the call has asked for
\* the latch of a page it holds a guard of.
Tree ==
    [pages |-> treePages, root |-> root_page_id_, asserted |-> TRUE, fetched |-> {},
     kept |-> {}, read |-> {}, again |-> FALSE,
     leaf_max_size_ |-> LeafMaxSize, internal_page_size_ |-> INTERNAL_PAGE_SIZE]

\* the return of Insert: the Context and the guards go out of scope
InsertReturn(t, ok) ==
    /\ rets' = [rets EXCEPT ![t] = @ \cup {<<tkey[t], ok>>}]
    /\ latch' = ReleaseAll(t)
    /\ ctx' = [ctx EXCEPT ![t] = NoContext]
    /\ tpage' = [tpage EXCEPT ![t] = INVALID_PAGE_ID]

\* Insert is called and takes the write latch of the header page
InsertStart(t, key) ==
    /\ tpc[t] = "idle"
    /\ iter.state = "none"
    /\ key \in todo[t]
    /\ LatchFree(HEADER_PAGE_ID)
    /\ latch' = MapPut(latch, HEADER_PAGE_ID, t)
    /\ tpc' = [tpc EXCEPT ![t] = "header"]
    /\ tkey' = [tkey EXCEPT ![t] = key]
    /\ todo' = [todo EXCEPT ![t] = @ \ {key}]
    /\ ctx' = [ctx EXCEPT ![t].header_page_ = TRUE]
    /\ UNCHANGED <<treePages, root_page_id_, tpage, rets, iter, emitted>>
    /\ UNCHANGED <<replacerVars, poolVars, lmVars, txVars, guardVars>>

\* an empty tree gets its root leaf; else the root is latched
InsertRoot(t) ==
    /\ tpc[t] = "header"
    /\ IF root_page_id_ = INVALID_PAGE_ID
       THEN \E oob \in BOOLEAN :
               LET ins == LeafInsert(LeafInit(LeafMaxSize), tkey[t], RidOf(tkey[t]), oob)
               IN /\ treePages' = Append(treePages, ins.page)
                  /\ root_page_id_' = Len(treePages) + 1
                  /\ InsertReturn(t, TRUE)
                  /\ tpc' = [tpc EXCEPT ![t] = "idle"]
       ELSE /\ LatchFree(root_page_id_)
            /\ latch' = MapPut(latch, root_page_id_, t)
            /\ ctx' = [ctx EXCEPT ![t].root_page_id_ = root_page_id_,
                                  ![t].write_set_ = <<root_page_id_>>]
            /\ tpage' = [tpage EXCEPT ![t] = root_page_id_]
            /\ tpc' = [tpc EXCEPT ![t] = "descend"]
            /\ UNCHANGED <<treePages, root_page_id_, rets>>
    /\ UNCHANGED <<tkey, todo, iter, emitted>>
    /\ UNCHANGED <<replacerVars, poolVars, lmVars, txVars, guardVars>>

\* one turn of the descent: the child is latched; a child that is not full
\* lets go of the header page and of every page above
InsertDescend(t) ==
    /\ tpc[t] = "descend"
    /\ ~IsLeafPage(treePages[tpage[t]])
    /\ LET child == InternalFind(treePages[tpage[t]], tkey[t])
       IN /\ LatchFree(child)
          /\ IF ~IsFull(treePages[child])
             THEN /\ latch' = MapPut(ReleaseAll(t), child, t)
                  /\ ctx' = [ctx EXCEPT ![t].header_page_ = FALSE, ![t].write_set_ = <<child>>]
             ELSE /\ latch' = MapPut(latch, child, t)
                  /\ ctx' = [ctx EXCEPT ![t].write_set_ = Append(@, child)]
          /\ tpage' = [tpage EXCEPT ![t] = child]
    /\ UNCHANGED <<treePages, root_page_id_, tpc, tkey, todo, rets, iter, emitted>>
    /\ UNCHANGED <<replacerVars, poolVars, lmVars, txVars, guardVars>>

\* the leaf is reached
InsertLeaf(t) ==
    /\ tpc[t] = "descend"
    /\ IsLeafPage(treePages[tpage[t]])
    /\ \E oob \in BOOLEAN :
          LET res == InsertIntoLeaf(Tree, ctx[t], tkey[t], RidOf(tkey[t]), oob)
          IN /\ treePages' = res.tree.pages
             /\ root_page_id_' = res.tree.root
             /\ InsertReturn(t, res.ok)
             /\ tpc' = [tpc EXCEPT ![t] = IF res.tree.asserted THEN "idle" ELSE "aborted"]
    /\ UNCHANGED <<tkey, todo, iter, emitted>>
    /\ UNCHANGED <<replacerVars, poolVars, lmVars, txVars, guardVars>>

(***************************************************************************)
(* The iteration, by one thread, once every insert has returned.           *)
(***************************************************************************)
AllInserted == \A t \in Threads : tpc[t] = "idle" /\ todo[t] = {}

RECURSIVE LeftmostLeaf(_, _)
LeftmostLeaf(pages, page_id) ==
    IF IsLeafPage(pages[page_id]) THEN page_id
    ELSE LeftmostLeaf(pages, pages[page_id].array_[1].second)

\* BPlusTree::Begin.  With no root it fetches page INVALID_PAGE_ID and walks
\* whatever that page holds: it does not return an iterator of the tree.
Begin ==
    /\ AllInserted
    /\ iter.state = "none"
    /\ IF root_page_id_ = INVALID_PAGE_ID
       THEN iter' \in {[NoIter EXCEPT !.state = s] : s \in {"crashed", "looping"}}
       ELSE iter' = [state |-> "valid", page_id_ |-> LeftmostLeaf(treePages, root_page_id_),
                     index_ |-> 0]
    /\ UNCHANGED <<treePages, root_page_id_, latch, tpc, tkey, todo, ctx, tpage, rets, emitted>>
    /\ UNCHANGED <<replacerVars, poolVars, lmVars, txVars, guardVars>>

\* IndexIterator::IsEnd
IsEnd(it) ==
    /\ treePages[it.page_id_].next_page_id_ = INVALID_PAGE_ID
    /\ it.index_ = GetSize(treePages[it.page_id_])

\* IndexIterator::operator++
Advance(it) ==
    LET page == treePages[it.page_id_]
    IN IF it.index_ = GetSize(page) - 1 /\ page.next_page_id_ # INVALID_PAGE_ID
       THEN [it EXCEPT !.page_id_ = page.next_page_id_, !.index_ = 0]
       ELSE [it EXCEPT !.index_ = @ + 1]

\* one turn of  for (it = Begin(); !it.IsEnd(); ++it) emit((*it).first)
IterNext ==
    /\ iter.state = "valid"
    /\ ~IsEnd(iter)
    /\ emitted' = Append(emitted, treePages[iter.page_id_].array_[iter.index_ + 1].first)
    /\ iter' = Advance(iter)
    /\ UNCHANGED <<treePages, root_page_id_, latch, tpc, tkey, todo, ctx, tpage, rets>>
    /\ UNCHANGED <<replacerVars, poolVars, lmVars, txVars, guardVars>>

NextTree ==
    \/ \E t \in Threads, key \in Keys : InsertStart(t, key)
    \/ \E t \in Threads : InsertRoot(t)
    \/ \E t \in Threads : InsertDescend(t)
    \/ \E t \in Threads : InsertLeaf(t)
    \/ Begin
    \/ IterNext

InitOutsideTree ==
    /\ InitLockManager
    /\ iso = [t \in Txns |-> "REPEATABLE_READ"]
    /\ heap = << >>
    /\ InitWriteSets
    /\ InitReplacer
    /\ InitPool

\* SpecTree: one thread inserts a set of distinct keys in any order
InitTreeSeq ==
    /\ InitOutsideTree
    /\ InitTree
    /\ todo \in {f \in [Threads -> SUBSET Keys] : \A t \in Threads \ {1} : f[t] = {}}

SpecTree == InitTreeSeq /\ [][NextTree]_vars

\* SpecTreeConc: every thread inserts a key range of its own
KeyRanges == {a..b : a, b \in Keys} \ {{}}

InitTreeConc ==
    /\ InitOutsideTree
    /\ InitTree
    /\ todo \in {f \in [Threads -> KeyRanges] :
                    \A t, u \in Threads : t # u => f[t] \cap f[u] = {}}

SpecTreeConc == InitTreeConc /\ [][NextTree]_vars

\* the keys whose Insert has returned
InsertedKeys == {p[1] : p \in UNION {rets[t] : t \in Threads}}

IsPrefix(s, t) == Len(s) <= Len(t) /\ \A i \in 1..Len(s) : s[i] = t[i]

(***************************************************************************)
(* C2.  After the distinct keys of any set were inserted in any order into *)
(* an empty tree, the iteration from begin() yields the inserted keys in   *)
(* strictly ascending order, each once, and is at its end exactly when all *)
(* of them were yielded.                                                   *)
(***************************************************************************)
C2_IterationYieldsSortedKeys ==
    iter.state # "none" =>
        /\ iter.state = "valid"
        /\ IsPrefix(emitted, SortedSeq(InsertedKeys))
        /\ IsEnd(iter) <=> emitted = SortedSeq(InsertedKeys)

\* begin() was called on a tree into which no key was inserted
C2_BeginOnEmptyTree == iter.state \in {"crashed", "looping"} /\ InsertedKeys = {}

\* an iteration over a tree of three levels has ended
C2_IteratedSplitTree ==
    /\ iter.state = "valid" /\ IsEnd(iter)
    /\ Len(emitted) = MaxKey
    /\ \E p \in 1..Len(treePages) :
          ~IsLeafPage(treePages[p]) /\ ~IsLeafPage(treePages[treePages[p].array_[1].second])

(***************************************************************************)
(* C5.  When the threads insert pairwise disjoint key ranges concurrently, *)
(* every Insert returns true, no thread stops at an assertion, and the     *)
(* iteration that follows the last return yields the sorted union of the   *)
(* ranges: no key lost, none twice, none out of order.                     *)
(***************************************************************************)
C5_ConcurrentInsertsSortedUnion ==
    /\ \A t \in Threads : tpc[t] # "aborted" /\ \A p \in rets[t] : p[2]
    /\ iter.state # "none" =>
          /\ iter.state = "valid"
          /\ IsPrefix(emitted, SortedSeq(InsertedKeys))
          /\ IsEnd(iter) <=> emitted = SortedSeq(InsertedKeys)

\* two threads stand inside Insert at once, on different pages of a split tree
C5_TwoInsertsInFlight ==
    /\ tpc[1] = "descend" /\ tpc[2] = "descend"
    /\ IsLeafPage(treePages[tpage[1]]) /\ IsLeafPage(treePages[tpage[2]])

\* two threads have inserted, a page was split, and the iteration has ended
C5_BothInsertedAndIterated ==
    /\ iter.state = "valid" /\ IsEnd(iter)
    /\ \A t \in Threads : rets[t] # {}
    /\ Len(treePages) >= 3
    /\ Len(emitted) = Cardinality(InsertedKeys)

(***************************************************************************)
(* BPlusTree::Remove and BPlusTree::DeleteEntry.                           *)
(***************************************************************************)
\* BPlusTreeLeafPage::Find: the position of key counted from 1, 0 when absent
LeafFind(page, key) ==
    LET S == {i \in 1..Len(page.array_) : page.array_[i].first = key}
    IN IF S = {} THEN 0 ELSE CHOOSE i \in S : TRUE

\* BPlusTreeLeafPage::DeleteEntry
LeafDeleteEntry(page, key) ==
    IF LeafFind(page, key) = 0 THEN page
    ELSE [page EXCEPT !.array_ = RemoveAt(@, LeafFind(page, key))]

\* InternalDeleteEntry with a fault: the separator stays in the parent
InternalDeleteEntryKeeps(page, key) == page

\* BPlusTreeInternalPage::DeleteEntry(key, comp): slot 0 is never looked at
InternalDeleteEntry(page, key) ==
    LET S == {i \in 2..Len(page.array_) : page.array_[i].first = key}
    IN IF S = {} THEN page
       ELSE [page EXCEPT !.array_ = RemoveAt(@, CHOOSE i \in S : \A j \in S : i <= j)]

\* BPlusTreeInternalPage::DeleteEntry(idx), idx counted from 0
InternalDeleteAt(page, idx) ==
    IF idx >= GetSize(page) THEN page
    ELSE [page EXCEPT !.array_ = RemoveAt(@, idx + 1)]

\* BPlusTreeInternalPage::Insert(key, value, idx), idx counted from 0
InternalInsertAt(page, key, value, idx) ==
    [page EXCEPT !.array_ = InsertAt(@, idx + 1, KV(key, value))]

\* BPlusTreeInternalPage::ValueIndex, counted from 0; -1 where it asserts
ValueIndex(page, value) ==
    LET S == {i \in 1..Len(page.array_) : page.array_[i].second = value}
    IN IF S = {} THEN -1 ELSE (CHOOSE i \in S : \A j \in S : i <= j) - 1

\* BPlusTreeInternalPage::SetKeyAt, idx counted from 0
SetKeyAt(page, idx, key) == [page EXCEPT !.array_[idx + 1].first = key]

\* IncreaseSize(-1): the last slot is given up
DropLast(page) == [page EXCEPT !.array_ = SubSeq(@, 1, Len(@) - 1)]

\* the loop of the leaf merge: every entry of the right node is inserted
RECURSIVE LeafInsertAll(_, _, _)
LeafInsertAll(page, array, oob) ==
    IF array = << >> THEN page
    ELSE LeafInsertAll(LeafInsert(page, array[1].first, array[1].second, oob).page,
                       Tail(array), oob)

\* the loop of the internal merge
RECURSIVE InternalInsertAll(_, _)
InternalInsertAll(page, array) ==
    IF array = << >> THEN page
    ELSE InternalInsertAll(InternalInsert(page, array[1].first, array[1].second), Tail(array))

\* the descent of Remove from the page the Context ends with: a child above
\* its min size lets go of the header page and of every page above
RECURSIVE RemoveDescend(_, _, _)
RemoveDescend(pages, c, key) ==
    LET page == pages[c.write_set_[Len(c.write_set_)]]
    IN IF IsLeafPage(page) THEN c
       ELSE LET child == InternalFind(page, key)
            IN RemoveDescend(pages,
                   IF GetSize(pages[child]) > GetMinSize(pages[child])
                   THEN [c EXCEPT !.header_page_ = FALSE, !.write_set_ = <<child>>]
                   ELSE [c EXCEPT !.write_set_ = Append(@, child)],
                   key)

ChildrenKept(kept, pid, sibling) == kept \cup {pid, sibling}

\* guard.reset(); sibling_guard.reset(): the guards the merge lets go of before
\* it goes up to the parent
ChildrenReleased(kept, pid, sibling) == kept \ {pid, sibling}

\* the pages a call holds a guard of: the header page and the write set of its
\* Context, and the pages of the frames below
GuardsOf(c, kept) ==
    kept \cup {c.write_set_[i] : i \in 1..Len(c.write_set_)}
         \cup (IF c.header_page_ THEN {HEADER_PAGE_ID} ELSE {})

\* BPlusTree::DeleteEntry.  asserted is FALSE when ValueIndex, KeyAt, SetKeyAt
\* or the assertion on the header latch stops the call, or when the parent is
\* asked of an empty write set.  fetched collects the siblings the call takes
\* the write latch of.
RECURSIVE DeleteEntry(_, _, _, _)
DeleteEntry(tree, c, key, oob) ==
    LET pid == c.write_set_[Len(c.write_set_)]
        popped == SubSeq(c.write_set_, 1, Len(c.write_set_) - 1)
        page == IF IsLeafPage(tree.pages[pid]) THEN LeafDeleteEntry(tree.pages[pid], key)
                ELSE InternalDeleteEntry(tree.pages[pid], key)
        t1 == [tree EXCEPT !.pages[pid] = page]
    IN IF pid = c.root_page_id_
       THEN IF IsLeafPage(page) \/ GetSize(page) # 1 THEN t1
            ELSE [t1 EXCEPT !.root = IF c.header_page_ THEN page.array_[1].second ELSE @,
                            !.read = @ \cup {page.array_[1].second},
                            !.again = @ \/ page.array_[1].second \in GuardsOf(c, t1.kept),
                            !.asserted = @ /\ c.header_page_]
       ELSE IF GetSize(page) >= GetMinSize(page) THEN t1
       ELSE IF popped = << >> THEN [t1 EXCEPT !.asserted = FALSE]
       ELSE
       LET parent_pid == popped[Len(popped)]
           parent_page == t1.pages[parent_pid]
           i == ValueIndex(parent_page, pid)
           hasNext == i < GetSize(parent_page) - 1
           idx == IF hasNext THEN i + 1 ELSE i
       IN IF i < 0 \/ idx < 1 THEN [t1 EXCEPT !.asserted = FALSE]
          ELSE
          LET parent_key == parent_page.array_[idx + 1].first
              left_pid == IF hasNext THEN pid ELSE parent_page.array_[idx].second
              right_pid == IF hasNext THEN parent_page.array_[idx + 1].second ELSE pid
              left_page == t1.pages[left_pid]
              right_page == t1.pages[right_pid]
              left_size == GetSize(left_page)
              sibling == IF hasNext THEN right_pid ELSE left_pid
              t2 == [t1 EXCEPT !.fetched = @ \cup {sibling},
                               !.again = @ \/ sibling \in GuardsOf(c, t1.kept)]
          IN IF left_size + GetSize(right_page) <= left_page.max_size
             THEN \* merge into the left node, then delete the separator in the parent
                  LET merged ==
                        IF IsLeafPage(left_page)
                        THEN LeafInsertAll([left_page EXCEPT !.next_page_id_ =
                                                right_page.next_page_id_],
                                           right_page.array_, oob)
                        ELSE InternalInsertAll(left_page,
                                 [right_page.array_ EXCEPT ![1].first = parent_key])
                  IN DeleteEntry([t2 EXCEPT !.pages[left_pid] = merged,
                                            !.kept = ChildrenReleased(@, pid, sibling)],
                                 [c EXCEPT !.write_set_ = popped], parent_key, oob)
             ELSE \* redistribution: one entry is borrowed from the sibling
                  IF IsLeafPage(left_page)
                  THEN LET l == IF left_size < GetMinSize(left_page)
                                THEN LeafInsert(left_page, right_page.array_[1].first,
                                                right_page.array_[1].second, oob).page
                                ELSE DropLast(left_page)
                           r == IF left_size < GetMinSize(left_page)
                                THEN LeafDeleteEntry(right_page, right_page.array_[1].first)
                                ELSE LeafInsert(right_page, left_page.array_[left_size].first,
                                                left_page.array_[left_size].second, oob).page
                       IN [t2 EXCEPT !.pages[left_pid] = l, !.pages[right_pid] = r,
                                     !.pages[parent_pid] =
                                         SetKeyAt(parent_page, idx, r.array_[1].first)]
                  ELSE IF left_size < GetMinSize(left_page)
                  THEN IF GetSize(right_page) < 2 THEN [t2 EXCEPT !.asserted = FALSE]
                       ELSE [t2 EXCEPT
                               !.pages[left_pid] = InternalInsert(left_page, parent_key,
                                                       right_page.array_[1].second),
                               !.pages[parent_pid] = SetKeyAt(parent_page, idx,
                                                       right_page.array_[2].first),
                               !.pages[right_pid] = InternalDeleteAt(right_page, 0)]
                  ELSE IF left_size < 2 THEN [t2 EXCEPT !.asserted = FALSE]
                       ELSE [t2 EXCEPT
                               !.pages[right_pid] = InternalInsertAt(right_page, parent_key,
                                                       left_page.array_[left_size].second, 0),
                               !.pages[parent_pid] = SetKeyAt(parent_page, idx,
                                                       left_page.array_[left_size].first),
                               !.pages[left_pid] = DropLast(left_page)]

\* BPlusTree::Remove on a tree that has a root page
Remove(tree, key, oob) ==
    DeleteEntry(tree,
                RemoveDescend(tree.pages,
                              [header_page_ |-> TRUE, root_page_id_ |-> tree.root,
                               write_set_ |-> <<tree.root>>], key),
                key, oob)

\* the pages of the subtree under page_id
RECURSIVE Subtree(_, _)
Subtree(pages, page_id) ==
    IF IsLeafPage(pages[page_id]) THEN {page_id}
    ELSE {page_id} \cup UNION {Subtree(pages, pages[page_id].array_[i].second) :
                                  i \in 1..Len(pages[page_id].array_)}

TreePageIds == IF root_page_id_ = INVALID_PAGE_ID THEN {} ELSE Subtree(treePages, root_page_id_)

\* the keys the leaves of the tree hold
StoredKeys ==
    UNION {{treePages[p].array_[i].first : i \in 1..Len(treePages[p].array_)} :
              p \in {q \in TreePageIds : IsLeafPage(treePages[q])}}


\* the leaf that the descent for key ends on
RECURSIVE FindLeaf(_, _, _)
FindLeaf(pages, page_id, key) ==
    IF IsLeafPage(pages[page_id]) THEN page_id
    ELSE FindLeaf(pages, InternalFind(pages[page_id], key), key)

(***************************************************************************)
(* BPlusTree::Insert as one call of one thread.                            *)
(***************************************************************************)
\* the descent of Insert from the page the Context ends with: a child that is
\* not full lets go of the header page and of every page above
RECURSIVE InsertDescendAll(_, _, _)
InsertDescendAll(pages, c, key) ==
    LET page == pages[c.write_set_[Len(c.write_set_)]]
    IN IF IsLeafPage(page) THEN c
       ELSE LET child == InternalFind(page, key)
            IN InsertDescendAll(pages,
                   IF ~IsFull(pages[child])
                   THEN [c EXCEPT !.header_page_ = FALSE, !.write_set_ = <<child>>]
                   ELSE [c EXCEPT !.write_set_ = Append(@, child)],
                   key)

Insert(tree, key, value, oob) ==
    IF tree.root = INVALID_PAGE_ID
    THEN [ok |-> TRUE,
          tree |-> [tree EXCEPT
                      !.pages = Append(@, LeafInsert(LeafInit(tree.leaf_max_size_), key, value, oob).page),
                      !.root = Len(tree.pages) + 1]]
    ELSE InsertIntoLeaf(tree,
                        InsertDescendAll(tree.pages,
                                         [header_page_ |-> TRUE, root_page_id_ |-> tree.root,
                                          write_set_ |-> <<tree.root>>], key),
                        key, value, oob)

(***************************************************************************)
(* Page ids are names that AllocatePage hands out, and a page that a merge *)
(* or a new root has cut off is never deleted or read again.  After every  *)
(* call the pages are renamed in the order of a walk from the root and the *)
(* pages nothing points to are dropped, so that two trees that differ in   *)
(* the names of their pages only are one state.                            *)
(***************************************************************************)
Children(page) ==
    IF IsLeafPage(page) THEN << >> ELSE [i \in 1..Len(page.array_) |-> page.array_[i].second]

\* the page ids in the order of a walk from the root, parents first
RECURSIVE Walk(_, _, _)
Walk(pages, stack, acc) ==
    IF stack = << >> THEN acc
    ELSE IF SeqHas(acc, Head(stack)) THEN Walk(pages, Tail(stack), acc)
    ELSE Walk(pages, Children(pages[Head(stack)]) \o Tail(stack), Append(acc, Head(stack)))

\* the leaves that only a next page id leads to are kept as well
RECURSIVE WithNext(_, _)
WithNext(pages, acc) ==
    LET S == {pages[acc[i]].next_page_id_ : i \in 1..Len(acc)}
                 \ ({acc[i] : i \in 1..Len(acc)} \cup {INVALID_PAGE_ID})
    IN IF S = {} THEN acc
       ELSE WithNext(pages, Append(acc, CHOOSE p \in S : \A q \in S : p <= q))

NewId(walk, page_id) ==
    IF page_id = INVALID_PAGE_ID THEN INVALID_PAGE_ID
    ELSE CHOOSE i \in 1..Len(walk) : walk[i] = page_id

Renamed(walk, page) ==
    [page EXCEPT !.next_page_id_ = NewId(walk, @),
                 !.array_ = IF IsLeafPage(page) THEN @
                            ELSE [i \in 1..Len(@) |-> KV(@[i].first, NewId(walk, @[i].second))]]

Canon(tree) ==
    IF tree.root = INVALID_PAGE_ID THEN tree
    ELSE LET walk == WithNext(tree.pages, Walk(tree.pages, <<tree.root>>, << >>))
         IN [tree EXCEPT !.pages = [i \in 1..Len(walk) |-> Renamed(walk, tree.pages[walk[i]])],
                         !.root = 1]

(***************************************************************************)
(* SpecTreeOps: one thread calls Insert with any key and Remove with the   *)
(* keys of the upper half, one call after the other, on a tree that starts *)
(* empty.                                                                  *)
(***************************************************************************)
OpsKeys == 1..MaxOpsKey

\* the keys Remove is called with: the upper half, since removing at the right
\* end is what makes a page borrow from its left sibling
RemoveKeys == {key \in OpsKeys : 2 * key > MaxOpsKey}

\* what the comparison with array_[-1] can yield in a call: it is made on a
\* leaf without entries only
OobOutcomes ==
    IF \/ root_page_id_ = INVALID_PAGE_ID
       \/ \E p \in 1..Len(treePages) : IsLeafPage(treePages[p]) /\ GetSize(treePages[p]) = 0
    THEN BOOLEAN ELSE {FALSE}

InsertCall(key) ==
    /\ tpc[1] = "idle"
    /\ \E oob \in OobOutcomes :
          LET res == Insert(Tree, key, RidOf(key), oob)
              named == Canon(res.tree)
          IN /\ treePages' = named.pages
             /\ root_page_id_' = named.root
             /\ tpc' = [tpc EXCEPT ![1] = IF res.tree.asserted THEN "idle" ELSE "aborted"]
    /\ UNCHANGED <<latch, tkey, todo, ctx, tpage, rets, iter, emitted>>
    /\ UNCHANGED <<replacerVars, poolVars, lmVars, txVars, guardVars>>

\* Remove is called.  With no root it fetches page INVALID_PAGE_ID, as Begin
\* does.
TreeRemoveCall(key) ==
    /\ tpc[1] = "idle"
    /\ IF root_page_id_ = INVALID_PAGE_ID
       THEN /\ tpc' = [tpc EXCEPT ![1] = "crashed"]
            /\ UNCHANGED <<treePages, root_page_id_>>
       ELSE \E oob \in OobOutcomes :
               LET res == Remove(Tree, key, oob)
                   named == Canon(res)
               IN /\ treePages' = named.pages
                  /\ root_page_id_' = named.root
                  /\ tpc' = [tpc EXCEPT ![1] = IF res.asserted THEN "idle" ELSE "aborted"]
    /\ UNCHANGED <<latch, tkey, todo, ctx, tpage, rets, iter, emitted>>
    /\ UNCHANGED <<replacerVars, poolVars, lmVars, txVars, guardVars>>

NextTreeOps ==
    \/ \E key \in OpsKeys : InsertCall(key)
    \/ \E key \in RemoveKeys : TreeRemoveCall(key)

InitTreeOps ==
    /\ InitOutsideTree
    /\ InitTree
    /\ todo = [t \in Threads |-> {}]

SpecTreeOps == InitTreeOps /\ [][NextTreeOps]_vars

\* a stored key that the descent from the root does not lead to
LostKeys ==
    {key \in StoredKeys :
        LeafFind(treePages[FindLeaf(treePages, root_page_id_, key)], key) = 0}

\* every non-root page of the tree is within its own min size and the max
\* size the tree was constructed with
SizesWithin(pages, ids) ==
    \A p \in ids :
       /\ GetSize(pages[p]) >= GetMinSize(pages[p])
       /\ GetSize(pages[p]) <= IF IsLeafPage(pages[p]) THEN LeafMaxSize ELSE InternalMaxSize

(***************************************************************************)
(* C11.  Insert with a key that the tree holds returns false and leaves    *)
(* the tree as it was: the same pages with the same entries, the same root *)
(* id, whether the leaf of the key is full or not.                         *)
(***************************************************************************)
C11_DuplicateInsertRejected ==
    [][\A key \in OpsKeys :
          (InsertCall(key) /\ key \in StoredKeys) =>
              /\ \A oob \in OobOutcomes :
                    /\ ~Insert(Tree, key, RidOf(key), oob).ok
                    /\ Insert(Tree, key, RidOf(key), oob).tree = Tree
              /\ treePages' = treePages
              /\ root_page_id_' = root_page_id_]_vars

\* a key is stored that the descent does not find, so that Insert with
\* that key does not meet it
C11_StoredKeyOffDescent == tpc[1] = "idle" /\ LostKeys # {}

(***************************************************************************)
(* C12.  Remove with a key that a tree with a root does not hold changes   *)
(* no page and not the root id, and a second Remove with the key of a      *)
(* Remove changes nothing any more.                                        *)
(***************************************************************************)
C12_RemoveAbsentIsNoOp ==
    [][\A key \in OpsKeys :
          (TreeRemoveCall(key) /\ root_page_id_ # INVALID_PAGE_ID) =>
              /\ key \notin StoredKeys =>
                    /\ treePages' = treePages
                    /\ root_page_id_' = root_page_id_
              /\ tpc'[1] = "idle" =>
                    \A oob \in BOOLEAN : Remove(Tree', key, oob) = Tree']_vars

\* a leaf other than the root is left with no entry, so that a Remove that
\* ends on it merges it whatever its key
C12_EmptyLeafAtRest ==
    /\ tpc[1] = "idle"
    /\ \E p \in TreePageIds \ {root_page_id_} :
          IsLeafPage(treePages[p]) /\ GetSize(treePages[p]) = 0

(***************************************************************************)
(* C13.  After every Insert and Remove every leaf other than the root has  *)
(* between its min size and leaf_max_size_ entries and every internal page *)
(* other than the root between its min size and internal_max_size_         *)
(* children.                                                               *)
(***************************************************************************)
C13_SizesWithinConfigured == SizesWithin(treePages, TreePageIds \ {root_page_id_})

\* an internal page other than the root has more children than
\* internal_max_size_
C13_InternalAboveConfigured ==
    \E p \in TreePageIds \ {root_page_id_} :
        ~IsLeafPage(treePages[p]) /\ GetSize(treePages[p]) > InternalMaxSize

(***************************************************************************)
(* SpecQueue: three transactions lock one table in mode IX or X and its    *)
(* row in mode S or X, upgrades included, unlock them, and abort.          *)
(***************************************************************************)
QueueTableModes == {"IX", "X"}

NextQueue ==
    \/ \E t \in Txns, m \in QueueTableModes, oid \in LMTables : LockTableCall(t, m, oid)
    \/ \E t \in Txns, m \in RowModes, rid \in LMRows : LockRowCall(t, m, rid)
    \/ \E t \in Txns, oid \in LMTables : UnlockTableCall(t, oid)
    \/ \E t \in Txns, rid \in LMRows : UnlockRowCall(t, rid)
    \/ \E t \in Txns : Wake(t)
    \/ \E t \in Txns : Abort(t)
    \/ \E t \in Txns : ReleaseLocksRow(t)
    \/ \E t \in Txns : ReleaseLocksTable(t)
    \/ \E t \in Txns : AbortReleased(t)
    \/ \E t \in Txns : AbortFinish(t)

SpecQueue == InitDeadlock /\ [][NextQueue]_vars

\* the transactions whose request in q is granted
GrantedTxns(q) == {q[i].txn : i \in {j \in 1..Len(q) : q[j].granted}}

(***************************************************************************)
(* C19.  In every table and row queue no request is granted while a        *)
(* request that stands before it is not: requests that are not upgrades    *)
(* are appended at the tail and keep their order, so of two of them the    *)
(* later one is never granted while the earlier one is still waiting.      *)
(***************************************************************************)
C19_GrantsInQueueOrder ==
    \A q \in AllQueues : \A i, j \in 1..Len(q) :
        (i < j /\ q[j].granted) => q[i].granted

\* behind a granted S request an X request waits, and behind that an S request
\* that the granted one would admit
C19_CompatibleWaitsBehindBlocked ==
    \E rid \in Rows :
        /\ Len(rowQ[rid]) = 3
        /\ rowUpg[rid] = INVALID_TXN_ID
        /\ rowQ[rid][1].granted /\ rowQ[rid][1].mode = "S"
        /\ ~rowQ[rid][2].granted /\ rowQ[rid][2].mode = "X"
        /\ ~rowQ[rid][3].granted /\ rowQ[rid][3].mode = "S"

\* the request of the upgrading transaction stands directly behind the granted
\* requests and before every waiting one
UpgradePlaced(q, upg) ==
    upg # INVALID_TXN_ID =>
        /\ Cardinality({i \in 1..Len(q) : q[i].txn = upg}) = 1
        /\ \A i \in 1..Len(q) :
              q[i].txn = upg =>
                 /\ ~q[i].granted
                 /\ \A j \in 1..(i - 1) : q[j].granted
                 /\ \A j \in (i + 1)..Len(q) : ~q[j].granted

\* a step on a queue whose upgrade is pending: the upgrading transaction stays
\* the one recorded and nothing is granted while its request waits; when the
\* record is cleared its request has been granted (or has left the queue)
UpgradeFirst(q, upg, q2, upg2) ==
    upg # INVALID_TXN_ID =>
        IF upg2 # INVALID_TXN_ID
        THEN upg2 = upg /\ GrantedTxns(q2) \subseteq GrantedTxns(q)
        ELSE upg \in GrantedTxns(q2) \/ ~HasTxn(q2, upg)

(***************************************************************************)
(* C20.  An upgrade request stands directly behind the last granted        *)
(* request of its queue, before every request that waits; no request of    *)
(* the queue, waiting before or enqueued after, is granted while the       *)
(* upgrade waits; and while an upgrade is recorded on a queue no other     *)
(* transaction becomes the upgrading one.                                  *)
(***************************************************************************)
C20_UpgradeHasPriority ==
    [][/\ \A oid \in Tables :
             /\ UpgradePlaced(tableQ'[oid], tableUpg'[oid])
             /\ UpgradeFirst(tableQ[oid], tableUpg[oid], tableQ'[oid], tableUpg'[oid])
       /\ \A rid \in Rows :
             /\ UpgradePlaced(rowQ'[rid], rowUpg'[rid])
             /\ UpgradeFirst(rowQ[rid], rowUpg[rid], rowQ'[rid], rowUpg'[rid])]_vars

\* an upgrade to X waits behind the S lock of another transaction and before
\* a request that waits too
C20_UpgradeBeforeWaiter ==
    \E rid \in Rows :
        /\ Len(rowQ[rid]) = 3
        /\ rowQ[rid][1].granted /\ rowQ[rid][1].mode = "S"
        /\ rowQ[rid][2].txn = rowUpg[rid] /\ rowQ[rid][2].mode = "X"
        /\ ~rowQ[rid][3].granted


(***************************************************************************)
(* C21.  A LockTable call ends in UPGRADE_CONFLICT only for a transaction  *)
(* that holds a lock of another mode on the table while the upgrade of     *)
(* another transaction is pending on its queue; the request of a           *)
(* transaction that holds no lock on the table is appended to the tail of  *)
(* the queue, also while an upgrade is pending.                            *)
(***************************************************************************)
C21_ConflictOnlyForUpgraders ==
    [][\A t \in Txns, m \in QueueTableModes, oid \in LMTables :
          (LockTableCall(t, m, oid)
              /\ GetTableLockMode(t, oid) = "none"
              /\ CanTxnTakeLock(t, m) = "ok") =>
                 /\ txnState'[t] = txnState[t]
                 /\ Len(tableQ'[oid]) = Len(tableQ[oid]) + 1
                 /\ tableQ'[oid][Len(tableQ'[oid])].txn = t]_vars

\* a transaction that holds no lock and has no request on the table was aborted
\* with UPGRADE_CONFLICT while the upgrade of another transaction is pending
C21_FreshRequestAborted ==
    \E t \in Txns, oid \in LMTables :
        /\ txnState[t] = "ABORTED" /\ abortReason[t] = "UPGRADE_CONFLICT"
        /\ op[t] = NoOp
        /\ HeldTables(t) = {} /\ HeldRows(t) = {}
        /\ ~HasTxn(tableQ[oid], t)
        /\ tableUpg[oid] \notin {INVALID_TXN_ID, t}

(***************************************************************************)
(* C22.  A lock request of a transaction in state SHRINKING sets it to     *)
(* ABORTED with reason LOCK_ON_SHRINKING for every mode under              *)
(* REPEATABLE_READ and READ_UNCOMMITTED and for every mode but S and IS    *)
(* under READ_COMMITTED; under READ_COMMITTED an S or IS request made in   *)
(* SHRINKING is accepted: the transaction stays SHRINKING and its request  *)
(* is in the queue.                                                        *)
(***************************************************************************)
ShrinkingRequest(t, m, q2) ==
    IF iso[t] = "READ_COMMITTED" /\ m \in {"S", "IS"}
    THEN txnState'[t] = "SHRINKING" /\ HasTxn(q2, t)
    ELSE txnState'[t] = "ABORTED" /\ abortReason'[t] = "LOCK_ON_SHRINKING"

C22_LockOnShrinking ==
    [][\A t \in LMTxns, m \in LockModes :
          txnState[t] = "SHRINKING" =>
             /\ \A oid \in LMTables :
                   LockTableCall(t, m, oid) => ShrinkingRequest(t, m, tableQ'[oid])
             /\ \A rid \in LMRows :
                   LockRowCall(t, m, rid) => ShrinkingRequest(t, m, rowQ'[rid])]_vars

\* a READ_UNCOMMITTED transaction that has released an X lock is about to call
C22_ShrinkingReadUncommitted ==
    \E t \in LMTxns :
        iso[t] = "READ_UNCOMMITTED" /\ txnState[t] = "SHRINKING" /\ Idle(t)

(***************************************************************************)
(* C23.  A successful UnlockTable or non-forced UnlockRow of a GROWING     *)
(* transaction moves it to SHRINKING exactly when the released lock is S   *)
(* or X under REPEATABLE_READ, or X under READ_COMMITTED and               *)
(* READ_UNCOMMITTED; in every other case (IS, IX, SIX at any level, S      *)
(* under READ_COMMITTED) the transaction stays GROWING.                    *)
(***************************************************************************)
Shrinks(level, released) ==
    \/ level = "REPEATABLE_READ" /\ released \in {"S", "X"}
    \/ level \in {"READ_COMMITTED", "READ_UNCOMMITTED"} /\ released = "X"

AfterRelease(t, released) ==
    txnState'[t] # "ABORTED" =>
        txnState'[t] = IF Shrinks(iso[t], released) THEN "SHRINKING" ELSE "GROWING"

C23_ShrinkingOnUnlock ==
    [][\A t \in LMTxns :
          txnState[t] = "GROWING" =>
             /\ \A oid \in LMTables :
                   UnlockTableCall(t, oid) => AfterRelease(t, GetTableLockMode(t, oid))
             /\ \A rid \in LMRows :
                   UnlockRowCall(t, rid) =>
                       AfterRelease(t, GetRowLockMode(t, TableOf(rid), rid))]_vars

\* a READ_COMMITTED transaction has released an X lock and still holds a table lock
C23_ShrunkAfterExclusive ==
    \E t \in LMTxns :
        /\ iso[t] = "READ_COMMITTED" /\ txnState[t] = "SHRINKING"
        /\ HeldTables(t) # {} /\ HeldRows(t) = {}

(***************************************************************************)
(* C24.  LockRow is rejected, the transaction set to ABORTED and no        *)
(* request added to the queue of the row, when the mode is IS, IX or SIX,  *)
(* when the mode is X and the transaction holds none of X, IX, SIX on the  *)
(* table of the row, and when the mode is S and the transaction holds no   *)
(* lock of any mode on the table of the row.                               *)
(***************************************************************************)
RowLockNotAllowed(t, m, oid) ==
    \/ m \in {"IS", "IX", "SIX"}
    \/ m = "X" /\ GetTableLockMode(t, oid) \notin {"X", "IX", "SIX"}
    \/ m = "S" /\ GetTableLockMode(t, oid) = "none"

C24_RowLockNeedsTableLock ==
    [][\A t \in LMTxns, m \in LockModes, rid \in LMRows :
          (LockRowCall(t, m, rid) /\ RowLockNotAllowed(t, m, TableOf(rid))) =>
              /\ txnState'[t] = "ABORTED"
              /\ rowQ'[rid] = rowQ[rid]]_vars

\* a transaction holds an S lock on a row and no lock on the table of the row
C24_RowSharedWithoutTableLock ==
    \E t \in LMTxns, rid \in LMRows :
        /\ <<TableOf(rid), rid>> \in rowLockSet[t]["S"]
        /\ GetTableLockMode(t, TableOf(rid)) = "none"
        /\ txnState[t] = "GROWING"

(***************************************************************************)
(* C25.  COMMITTED and ABORTED are terminal: once a transaction is in one  *)
(* of them no step of the lock manager or of the transaction manager,      *)
(* the UnlockTable and UnlockRow calls of ReleaseLocks included, changes   *)
(* its state again.                                                        *)
(***************************************************************************)
C25_FinalStatesAreTerminal ==
    [][\A t \in LMTxns :
          txnState[t] \in {"COMMITTED", "ABORTED"} => txnState'[t] = txnState[t]]_vars

\* a transaction that a lock call or the detector has aborted is SHRINKING
\* again while Abort releases its locks
C25_AbortedBackToShrinking ==
    \E t \in LMTxns :
        /\ abortReason[t] # "none"
        /\ op[t].kind = "abort" /\ op[t].stage = "release"
        /\ txnState[t] = "SHRINKING"

(***************************************************************************)
(* Page guards.  A guard object is in scope (live) or not; a live guard    *)
(* owns a page (page_ is its id) or nothing (page_ is nullptr, written     *)
(* INVALID_PAGE_ID): after NewPage or FetchPage returned nullptr, after    *)
(* Drop, and after it was moved from.  drops counts the Drop calls the     *)
(* client has made on the object.                                          *)
(***************************************************************************)
GuardOf(page_id) ==
    [live |-> TRUE, page_ |-> page_id, is_dirty_ |-> FALSE, drops |-> 0]

\* the fields of a guard after Drop, with a fault: the page is not forgotten
DroppedKeepsPage(guard) ==
    [guard EXCEPT !.drops = @ + 1]

\* the fields of a guard after Drop
Dropped(guard) ==
    [guard EXCEPT !.page_ = INVALID_PAGE_ID, !.is_dirty_ = FALSE, !.drops = @ + 1]

\* a guard that owns a page unpins it with the dirty bit it has observed
Release(g) ==
    IF guards[g].page_ # INVALID_PAGE_ID
    THEN UnpinPageStep(guards[g].page_, guards[g].is_dirty_)
    ELSE UNCHANGED <<replacerVars, poolVars, treeVars, lmVars, txVars>>

NewPageGuarded(g) ==
    /\ ~guards[g].live
    /\ NewPageStep
    /\ guards' = [guards EXCEPT ![g] = GuardOf(bpmRes'.page_id)]

FetchPageBasic(g, page_id) ==
    /\ ~guards[g].live
    /\ FetchPageStep(page_id)
    /\ guards' = [guards EXCEPT ![g] = GuardOf(bpmRes'.page_id)]

\* the client takes a mutable view of the page: the guard notes that it is dirty
AsMut(g) ==
    /\ guards[g].live /\ guards[g].page_ # INVALID_PAGE_ID
    /\ guards' = [guards EXCEPT ![g].is_dirty_ = TRUE]
    /\ UNCHANGED <<replacerVars, poolVars, treeVars, lmVars, txVars>>

Drop(g) ==
    /\ guards[g].live /\ guards[g].drops < MaxDrops
    /\ Release(g)
    /\ guards' = [guards EXCEPT ![g] = Dropped(@)]

\* the destructor, at the end of the scope of the guard
Destroy(g) ==
    /\ guards[g].live
    /\ Release(g)
    /\ guards' = [guards EXCEPT ![g] = NoGuard]

\* this = std::move(that): this gives up its page and takes the one of that
MoveAssign(g, h) ==
    /\ g # h /\ guards[g].live /\ guards[h].live
    /\ Release(g)
    /\ guards' = [guards EXCEPT ![g] = [@ EXCEPT !.page_ = guards[h].page_,
                                                 !.is_dirty_ = guards[h].is_dirty_],
                                ![h] = [@ EXCEPT !.page_ = INVALID_PAGE_ID,
                                                 !.is_dirty_ = FALSE]]

NextGuard ==
    \/ \E g \in Guards : NewPageGuarded(g)
    \/ \E g \in Guards, p \in Allocated : FetchPageBasic(g, p)
    \/ \E p \in Allocated : FetchPage(p)
    \/ \E g \in Guards : AsMut(g)
    \/ \E g \in Guards : Drop(g)
    \/ \E g \in Guards : Destroy(g)
    \/ \E g, h \in Guards : MoveAssign(g, h)

SpecGuard == InitBPM /\ [][NextGuard]_vars

(***************************************************************************)
(* C26.  Drop (and the destructor) of a guard that owns a page unpins      *)
(* that page exactly once: its pin count goes down by one and no other pin *)
(* count changes; Drop and the destructor of a guard that owns no page, as *)
(* after an earlier Drop, change no pin count.                             *)
(***************************************************************************)
C26_DropUnpinsOnce ==
    [][\A g \in Guards :
          (Drop(g) \/ Destroy(g)) =>
              LET p == guards[g].page_
              IN IF p # INVALID_PAGE_ID
                 THEN /\ p \in DOMAIN page_table_
                      /\ \A f \in PoolFrames :
                            pages_'[f].pin_count =
                                pages_[f].pin_count - (IF f = page_table_[p] THEN 1 ELSE 0)
                 ELSE \A f \in PoolFrames : pages_'[f].pin_count = pages_[f].pin_count]_vars

\* a guard has been dropped twice and a page that no guard owns is still pinned once
C26_DroppedTwiceOtherPinKept ==
    \E g \in Guards, p \in DOMAIN page_table_ :
        /\ guards[g].live /\ guards[g].drops = MaxDrops
        /\ pages_[page_table_[p]].pin_count = 1
        /\ \A h \in Guards : guards[h].page_ # p

(***************************************************************************)
(* SpecDrain: a tree constructed with leaf_max_size 3 and internal_max_size *)
(* 4.  One thread inserts the keys 1..n in ascending order and then        *)
(* removes them in descending order, for an n up to DrainKeys, and calls   *)
(* Begin at the end.  The constructor stores internal_max_size and nothing *)
(* reads it: an internal page has room for DrainPageSize entries, more     *)
(* than this many keys ever need.                                          *)
(***************************************************************************)
DrainLeafMaxSize == 3
DrainKeys == 10
DrainPageSize == 12

DrainTree ==
    [Tree EXCEPT !.leaf_max_size_ = DrainLeafMaxSize, !.internal_page_size_ = DrainPageSize]

MaxOfSet(S) == CHOOSE x \in S : \A y \in S : y <= x

\* the keys 1..n are not all inserted yet
Filling == todo[1] # {} /\ Cardinality(rets[1]) < MaxOfSet(todo[1])

DrainInsert ==
    /\ tpc[1] = "idle" /\ Filling
    /\ LET key == Cardinality(rets[1]) + 1
       IN \E oob \in OobOutcomes :
             LET res == Insert(DrainTree, key, RidOf(key), oob)
                 named == Canon(res.tree)
             IN /\ treePages' = named.pages
                /\ root_page_id_' = named.root
                /\ rets' = [rets EXCEPT ![1] = @ \cup {<<key, res.ok>>}]
                /\ tpc' = [tpc EXCEPT ![1] = IF res.tree.asserted THEN "idle" ELSE "aborted"]
    /\ UNCHANGED <<latch, tkey, todo, ctx, tpage, iter, emitted>>
    /\ UNCHANGED <<replacerVars, poolVars, lmVars, txVars, guardVars>>

DrainRemove ==
    /\ tpc[1] = "idle" /\ ~Filling /\ todo[1] # {}
    /\ LET key == MaxOfSet(todo[1])
       IN \E oob \in OobOutcomes :
             LET res == Remove(DrainTree, key, oob)
                 named == Canon(res)
             IN /\ treePages' = named.pages
                /\ root_page_id_' = named.root
                /\ todo' = [todo EXCEPT ![1] = @ \ {key}]
                /\ tpc' = [tpc EXCEPT ![1] = IF res.asserted THEN "idle" ELSE "aborted"]
    /\ UNCHANGED <<latch, tkey, ctx, tpage, rets, iter, emitted>>
    /\ UNCHANGED <<replacerVars, poolVars, lmVars, txVars, guardVars>>

InitDrain ==
    /\ InitOutsideTree
    /\ InitTree
    /\ \E n \in 1..DrainKeys : todo = [t \in Threads |-> IF t = 1 THEN 1..n ELSE {}]

NextDrain ==
    \/ DrainInsert
    \/ DrainRemove
    \/ Begin

SpecDrain == InitDrain /\ [][NextDrain]_vars

(***************************************************************************)
(* C27.  With leaf max size 3 and internal max size 4, after the keys      *)
(* 1..10 were inserted in ascending order and removed in descending order  *)
(* the root id of the header page refers to a leaf of size 0, which is the *)
(* only page of the tree (the root id is not reset to INVALID_PAGE_ID and  *)
(* no internal page is reachable), and the iteration from Begin() yields   *)
(* nothing: the iterator is at its end at once.  The same holds for every  *)
(* shorter run 1..n, and no assertion fails on the way.                    *)
(***************************************************************************)
C27_DrainedTreeIsEmptyLeaf ==
    /\ tpc[1] = "idle"
    /\ \A p \in rets[1] : p[2]
    /\ (todo[1] = {}) =>
          /\ root_page_id_ # INVALID_PAGE_ID
          /\ TreePageIds = {root_page_id_}
          /\ IsLeafPage(treePages[root_page_id_])
          /\ GetSize(treePages[root_page_id_]) = 0
          /\ StoredKeys = {}
          /\ iter.state # "none" => (iter.state = "valid" /\ IsEnd(iter) /\ emitted = << >>)

\* the ten keys were inserted and removed and Begin has returned
C27_TenKeysDrained ==
    /\ Cardinality(rets[1]) = DrainKeys
    /\ todo[1] = {}
    /\ iter.state = "valid"

(***************************************************************************)
(* SpecLRUSeq: a replacer with k = 2 that has room for the frame ids 1..7. *)
(* The client makes the accesses of AccessSeq in order, marks every frame  *)
(* evictable at some time after an access to it, and when all accesses are *)
(* made and every frame is evictable it calls Evict seven times.           *)
(***************************************************************************)
AccessSeq == <<1, 2, 3, 4, 1, 2, 5, 6, 1, 2, 3, 4, 5, 6, 7>>

\* the frames the claim expects from the seven Evict calls, in order
ClaimedEvictions == <<7, 6, 5, 4, 3, 2, 1>>

SeqFrames == {AccessSeq[i] : i \in 1..Len(AccessSeq)}

SeqAccess ==
    /\ current_timestamp_ < Len(AccessSeq)
    /\ SetReplacer(ReplacerRecordAccess(Replacer, AccessSeq[current_timestamp_ + 1]))
    /\ UNCHANGED <<evictRes, poolVars, treeVars, lmVars, txVars, guardVars>>

SeqSetEvictable(frame_id) ==
    /\ frame_id \in DOMAIN node_store_
    /\ ~node_store_[frame_id].is_evictable_
    /\ SetReplacer(ReplacerSetEvictable(Replacer, frame_id, TRUE))
    /\ UNCHANGED <<evictRes, poolVars, treeVars, lmVars, txVars, guardVars>>

\* all accesses are made and every frame that is left is evictable
AllAccessed ==
    /\ current_timestamp_ = Len(AccessSeq)
    /\ \A f \in DOMAIN node_store_ : node_store_[f].is_evictable_

SeqEvict ==
    /\ AllAccessed
    /\ curr_size_ > 0
    /\ EvictCall

NextLRUSeq ==
    \/ SeqAccess
    \/ \E f \in SeqFrames : SeqSetEvictable(f)
    \/ SeqEvict

SpecLRUSeq == InitLRU /\ [][NextLRUSeq]_vars

(***************************************************************************)
(* C28.  With k = 2, after the accesses 1,2,3,4,1,2,5,6,1,2,3,4,5,6,7,     *)
(* every frame marked evictable after its access, seven Evict calls return *)
(* the frames 7, 6, 5, 4, 3, 2, 1 in this order.                           *)
(***************************************************************************)
C28_EvictionOrder ==
    [][SeqEvict =>
          /\ evictRes'.ok
          /\ evictRes'.frame = ClaimedEvictions[Len(ClaimedEvictions) - curr_size_ + 1]]_vars

\* the second Evict call has returned frame 3
C28_SecondEvictionIsThree ==
    /\ current_timestamp_ = Len(AccessSeq)
    /\ curr_size_ = Len(ClaimedEvictions) - 2
    /\ evictRes = [ok |-> TRUE, frame |-> 3]

(***************************************************************************)
(* SpecTreeMap: one thread calls Insert, Remove and GetValue with any keys *)
(* on a tree that starts empty.  index is the abstract map of the same     *)
(* calls: the keys that were inserted and not removed since (the value of  *)
(* key is RidOf(key)).  rets[1] holds what the last GetValue call          *)
(* returned, until the caller has looked at it.  Insert and GetValue are   *)
(* called with any key, Remove with the keys of the upper half: removing   *)
(* at the right end is what makes a page borrow from its left sibling.     *)
(***************************************************************************)
\* BPlusTree::GetValue on a tree that has a root page: the return value and
\* the vector result, which the caller passes empty
GetValue(tree, key) ==
    LET leaf_page == tree.pages[FindLeaf(tree.pages, tree.root, key)]
        idx == LeafFind(leaf_page, key)
    IN IF idx # 0
       THEN [ok |-> TRUE, result |-> <<leaf_page.array_[idx].second>>]
       ELSE [ok |-> FALSE, result |-> <<>>]

MapInsert(key) ==
    /\ tpc[1] = "idle" /\ rets[1] = {}
    /\ \E oob \in OobOutcomes :
          LET res == Insert(Tree, key, RidOf(key), oob)
              named == Canon(res.tree)
          IN /\ treePages' = named.pages
             /\ root_page_id_' = named.root
             /\ tpc' = [tpc EXCEPT ![1] = IF res.tree.asserted THEN "idle" ELSE "aborted"]
    /\ index' = index \cup {key}
    /\ UNCHANGED <<latch, tkey, todo, ctx, tpage, rets, iter, emitted>>
    /\ UNCHANGED <<replacerVars, poolVars, lmVars, heap, writeSet, indexWriteSet, scanned,
                   guardVars>>

\* Remove is called.  With no root it fetches page INVALID_PAGE_ID.
MapRemove(key) ==
    /\ tpc[1] = "idle" /\ rets[1] = {}
    /\ IF root_page_id_ = INVALID_PAGE_ID
       THEN /\ tpc' = [tpc EXCEPT ![1] = "crashed"]
            /\ UNCHANGED <<treePages, root_page_id_>>
       ELSE \E oob \in OobOutcomes :
               LET res == Remove(Tree, key, oob)
                   named == Canon(res)
               IN /\ treePages' = named.pages
                  /\ root_page_id_' = named.root
                  /\ tpc' = [tpc EXCEPT ![1] = IF res.asserted THEN "idle" ELSE "aborted"]
    /\ index' = index \ {key}
    /\ UNCHANGED <<latch, tkey, todo, ctx, tpage, rets, iter, emitted>>
    /\ UNCHANGED <<replacerVars, poolVars, lmVars, heap, writeSet, indexWriteSet, scanned,
                   guardVars>>

\* GetValue is called.  With no root it fetches page INVALID_PAGE_ID.
GetValueCall(key) ==
    /\ tpc[1] = "idle" /\ rets[1] = {}
    /\ IF root_page_id_ = INVALID_PAGE_ID
       THEN /\ tpc' = [tpc EXCEPT ![1] = "crashed"]
            /\ UNCHANGED rets
       ELSE /\ rets' = [rets EXCEPT ![1] = {<<key, GetValue(Tree, key)>>}]
            /\ UNCHANGED tpc
    /\ UNCHANGED <<treePages, root_page_id_, latch, tkey, todo, ctx, tpage, iter, emitted>>
    /\ UNCHANGED <<replacerVars, poolVars, lmVars, txVars, guardVars>>

\* the caller has looked at the result
GetValueSeen ==
    /\ rets[1] # {}
    /\ rets' = [rets EXCEPT ![1] = {}]
    /\ UNCHANGED <<treePages, root_page_id_, latch, tpc, tkey, todo, ctx, tpage, iter, emitted>>
    /\ UNCHANGED <<replacerVars, poolVars, lmVars, txVars, guardVars>>

NextTreeMap ==
    \/ \E key \in OpsKeys : MapInsert(key)
    \/ \E key \in RemoveKeys : MapRemove(key)
    \/ \E key \in OpsKeys : GetValueCall(key)
    \/ GetValueSeen

SpecTreeMap == InitTreeOps /\ [][NextTreeMap]_vars

(***************************************************************************)
(* C29.  After any sequence of Insert and Remove calls GetValue(k) returns *)
(* true with the value v exactly when (k, v) is in the abstract map of the *)
(* same calls, and every key that a leaf stores is found by the descent    *)
(* from the root.                                                          *)
(***************************************************************************)
C29_GetValueMatchesMap ==
    /\ \A r \in rets[1] :
          r[2] = IF r[1] \in index THEN [ok |-> TRUE, result |-> <<RidOf(r[1])>>]
                 ELSE [ok |-> FALSE, result |-> <<>>]
    /\ LostKeys = {}

\* GetValue has returned false for a key that is in the abstract map and that a
\* leaf of the tree stores
C29_StoredKeyNotFound ==
    \E r \in rets[1] :
        /\ r[1] \in index
        /\ r[1] \in StoredKeys
        /\ ~r[2].ok

(***************************************************************************)
(* SpecLatch: the threads insert the keys of their ranges and remove keys  *)
(* they have inserted, at the same time.  A thread stops where             *)
(* FetchPageWrite can block.  Remove is stepped as Insert is: the header   *)
(* page, the root, every child of the descent; from the leaf on DeleteEntry *)
(* is one step, taken when the siblings it fetches are free: the pages it  *)
(* has changed by then are latched by the thread or cut off below a page   *)
(* that is.                                                                *)
(***************************************************************************)
\* thread t inserts the KeysPerThread keys of its range
ThreadKeys(t) == ((t - 1) * KeysPerThread + 1)..(t * KeysPerThread)

RemoveSafeAlways(page) == TRUE

\* the child of the descent of Remove that lets go of the pages above
RemoveSafe(page) == GetSize(page) > GetMinSize(page)

\* Remove is called and takes the write latch of the header page
RemoveStart(t, key) ==
    /\ tpc[t] = "idle"
    /\ key \in {r[1] : r \in rets[t]}
    /\ LatchFree(HEADER_PAGE_ID)
    /\ latch' = MapPut(latch, HEADER_PAGE_ID, t)
    /\ tpc' = [tpc EXCEPT ![t] = "remove_header"]
    /\ tkey' = [tkey EXCEPT ![t] = key]
    /\ ctx' = [ctx EXCEPT ![t].header_page_ = TRUE]
    /\ UNCHANGED <<treePages, root_page_id_, todo, tpage, rets, iter, emitted>>
    /\ UNCHANGED <<replacerVars, poolVars, lmVars, txVars, guardVars>>

\* the root is latched; with no root, page INVALID_PAGE_ID is fetched
RemoveRoot(t) ==
    /\ tpc[t] = "remove_header"
    /\ IF root_page_id_ = INVALID_PAGE_ID
       THEN /\ tpc' = [tpc EXCEPT ![t] = "crashed"]
            /\ UNCHANGED <<latch, ctx, tpage>>
       ELSE /\ LatchFree(root_page_id_)
            /\ latch' = MapPut(latch, root_page_id_, t)
            /\ ctx' = [ctx EXCEPT ![t].root_page_id_ = root_page_id_,
                                  ![t].write_set_ = <<root_page_id_>>]
            /\ tpage' = [tpage EXCEPT ![t] = root_page_id_]
            /\ tpc' = [tpc EXCEPT ![t] = "remove_descend"]
    /\ UNCHANGED <<treePages, root_page_id_, tkey, todo, rets, iter, emitted>>
    /\ UNCHANGED <<replacerVars, poolVars, lmVars, txVars, guardVars>>

\* one turn of the descent: the child is latched; a child above its min size
\* lets go of the header page and of every page above
RemoveChild(t) ==
    /\ tpc[t] = "remove_descend"
    /\ ~IsLeafPage(treePages[tpage[t]])
    /\ LET child == InternalFind(treePages[tpage[t]], tkey[t])
       IN /\ LatchFree(child)
          /\ IF RemoveSafe(treePages[child])
             THEN /\ latch' = MapPut(ReleaseAll(t), child, t)
                  /\ ctx' = [ctx EXCEPT ![t].header_page_ = FALSE, ![t].write_set_ = <<child>>]
             ELSE /\ latch' = MapPut(latch, child, t)
                  /\ ctx' = [ctx EXCEPT ![t].write_set_ = Append(@, child)]
          /\ tpage' = [tpage EXCEPT ![t] = child]
    /\ UNCHANGED <<treePages, root_page_id_, tpc, tkey, todo, rets, iter, emitted>>
    /\ UNCHANGED <<replacerVars, poolVars, lmVars, txVars, guardVars>>

\* the leaf is reached: DeleteEntry, and the Context and the guards go out of
\* scope
RemoveLeaf(t) ==
    /\ tpc[t] = "remove_descend"
    /\ IsLeafPage(treePages[tpage[t]])
    /\ \E oob \in OobOutcomes :
          LET res == DeleteEntry(Tree, ctx[t], tkey[t], oob)
          IN /\ \A sibling \in res.fetched : LatchFree(sibling)
             /\ \A child \in res.read : child \in DOMAIN latch => latch[child] = t
             /\ ~res.again
             /\ treePages' = res.pages
             /\ root_page_id_' = res.root
             /\ tpc' = [tpc EXCEPT ![t] = IF res.asserted THEN "idle" ELSE "aborted"]
    /\ latch' = ReleaseAll(t)
    /\ ctx' = [ctx EXCEPT ![t] = NoContext]
    /\ tpage' = [tpage EXCEPT ![t] = INVALID_PAGE_ID]
    /\ UNCHANGED <<tkey, todo, rets, iter, emitted>>
    /\ UNCHANGED <<replacerVars, poolVars, lmVars, txVars, guardVars>>

NextLatch ==
    \/ \E t \in Threads : \E key \in ThreadKeys(t) : InsertStart(t, key)
    \/ \E t \in Threads : InsertRoot(t)
    \/ \E t \in Threads : InsertDescend(t)
    \/ \E t \in Threads : InsertLeaf(t)
    \/ \E t \in Threads : \E key \in ThreadKeys(t) : RemoveStart(t, key)
    \/ \E t \in Threads : RemoveRoot(t)
    \/ \E t \in Threads : RemoveChild(t)
    \/ \E t \in Threads : RemoveLeaf(t)

InitLatch ==
    /\ InitOutsideTree
    /\ InitTree
    /\ todo = [t \in Threads |-> ThreadKeys(t)]

SpecLatch == InitLatch /\ [][NextLatch]_vars

\* the pages whose write latch thread t holds
Held(t) == {p \in DOMAIN latch : latch[p] = t}

\* the siblings DeleteEntry takes the write latch of in the step of thread t
FetchedBy(t) ==
    IF tpc[t] = "remove_descend"
    THEN UNION {DeleteEntry(Tree, ctx[t], tkey[t], oob).fetched : oob \in OobOutcomes}
    ELSE {}

\* the pages of the tree that the step changes
Modified == {p \in 1..Len(treePages) : treePages'[p] # treePages[p]}

\* the step of thread t that changes pages: the rest of Insert or of Remove
Modifies(t) == InsertRoot(t) \/ InsertLeaf(t) \/ RemoveLeaf(t)

(***************************************************************************)
(* C30.  Whenever Insert or Remove changes a page of the tree (a leaf, a   *)
(* parent during a split, a merge or a borrow, a sibling) the thread holds *)
(* the write latch of that page, and it holds the write latch of the       *)
(* header page when it changes the root id.  The parent that a split or a  *)
(* merge goes up to is still in the Context, and the assertions on the     *)
(* header guard do not fail: no call is stopped.                           *)
(***************************************************************************)
C30_TreePagesLatched ==
    [][\A t \in Threads :
          Modifies(t) => /\ Modified \subseteq Held(t) \cup FetchedBy(t)
                         /\ root_page_id_' # root_page_id_ => HEADER_PAGE_ID \in Held(t)
                         /\ tpc'[t] # "aborted"]_vars

\* a Remove has gone up to the root and replaced it: an internal page above
\* internal pages is no longer in the tree, while the other thread is inside a
\* call and holds latches
C30_RootReplacedWhileOtherLatched ==
    /\ \E p \in 1..Len(treePages) :
          /\ ~IsLeafPage(treePages[p])
          /\ p \notin TreePageIds
          /\ ~IsLeafPage(treePages[treePages[p].array_[1].second])
    /\ \E t \in Threads : tpc[t] # "idle" /\ Held(t) # {}


(***************************************************************************)
(* C38.  Remove on a tree that never had a root returns at once: it        *)
(* fetches the header page only, never the page with the invalid id, and   *)
(* the tree stays empty.  Under SpecTreeOps a call is "crashed" only when  *)
(* Remove has fetched page INVALID_PAGE_ID.                                *)
(***************************************************************************)
C38_RemoveOnEmptyTreeReturns ==
    root_page_id_ = INVALID_PAGE_ID => tpc[1] # "crashed"

\* Remove was called on the tree that never had a root and has fetched the page
\* with the invalid id
C38_InvalidPageFetched ==
    /\ treePages = << >>
    /\ root_page_id_ = INVALID_PAGE_ID
    /\ tpc[1] = "crashed"

(***************************************************************************)
(* SpecSplit: one thread inserts keys in any order into trees constructed  *)
(* with the leaf max sizes 2..MaxSplitSize.  The run starts after the      *)
(* first Insert, which has made the root leaf; every leaf is initialised   *)
(* with leaf_max_size_, so page 1 holds it.                                *)
(***************************************************************************)
SplitSizes == 2..MaxSplitSize

SplitKeys == 1..MaxSplitKey

SplitTree == [Tree EXCEPT !.leaf_max_size_ = treePages[1].max_size]

InitSplit ==
    /\ InitOutsideTree
    /\ latch = EmptyMap
    /\ tpc = [t \in Threads |-> "idle"]
    /\ tkey = [t \in Threads |-> 0]
    /\ ctx = [t \in Threads |-> NoContext]
    /\ tpage = [t \in Threads |-> INVALID_PAGE_ID]
    /\ rets = [t \in Threads |-> {}]
    /\ iter = NoIter
    /\ emitted = << >>
    /\ todo = [t \in Threads |-> {}]
    /\ \E leaf_max_size \in SplitSizes, key \in SplitKeys :
          /\ treePages = <<LeafInsert(LeafInit(leaf_max_size), key, RidOf(key), FALSE).page>>
          /\ root_page_id_ = 1

SplitInsert(key) ==
    /\ tpc[1] = "idle"
    /\ \E oob \in OobOutcomes :
          LET res == Insert(SplitTree, key, RidOf(key), oob)
          IN /\ treePages' = res.tree.pages
             /\ root_page_id_' = res.tree.root
             /\ tpc' = [tpc EXCEPT ![1] = IF res.tree.asserted THEN "idle" ELSE "aborted"]
    /\ UNCHANGED <<latch, tkey, todo, ctx, tpage, rets, iter, emitted>>
    /\ UNCHANGED <<replacerVars, poolVars, lmVars, txVars, guardVars>>

NextSplit == \E key \in SplitKeys : SplitInsert(key)

SpecSplit == InitSplit /\ [][NextSplit]_vars

\* the sorted entries of a leaf with the entry of key added
WithEntry(array_, key) == InsertAt(array_, UpperBound(array_, 1, key), KV(key, RidOf(key)))

\* ceil(n / 2)
CeilHalf(n) == (n + 1) \div 2

\* Insert of key overflows the leaf: the leaf of key is full and has not got key
Overflows(key) ==
    LET leaf == treePages[FindLeaf(treePages, root_page_id_, key)]
    IN IsFull(leaf) /\ LeafFind(leaf, key) = 0

(***************************************************************************)
(* C35.  When an Insert overflows a leaf, the sorted entries with the new  *)
(* one are divided: the old (left) leaf keeps the first                    *)
(* ceil((max_size + 1) / 2), the new right sibling gets the rest, for odd  *)
(* and for even max_size; the sibling becomes left.next and the old        *)
(* left.next becomes the next of the sibling.                              *)
(***************************************************************************)
C35_LeftKeepsCeilOfHalf ==
    [][\A key \in SplitKeys :
          (SplitInsert(key) /\ Overflows(key)) =>
              LET left_pid == FindLeaf(treePages, root_page_id_, key)
                  new_pid == Len(treePages) + 1
                  old == treePages[left_pid]
                  array == WithEntry(old.array_, key)
                  keep == CeilHalf(old.max_size + 1)
              IN /\ treePages'[left_pid].array_ = SubSeq(array, 1, keep)
                 /\ treePages'[new_pid].array_ = SubSeq(array, keep + 1, Len(array))
                 /\ treePages'[left_pid].next_page_id_ = new_pid
                 /\ treePages'[new_pid].next_page_id_ = old.next_page_id_]_vars

\* a leaf of even max size has been split: it has a next leaf and holds
\* max_size / 2 entries, one less than ceil((max_size + 1) / 2)
C35_EvenLeafSplitLow ==
    \E p \in 1..Len(treePages) :
        /\ IsLeafPage(treePages[p])
        /\ treePages[p].max_size % 2 = 0
        /\ treePages[p].next_page_id_ # INVALID_PAGE_ID
        /\ GetSize(treePages[p]) = treePages[p].max_size \div 2
        /\ GetSize(treePages[treePages[p].next_page_id_]) = treePages[p].max_size \div 2 + 1

(***************************************************************************)
(* C40.  A transaction that holds an X lock on the table can run a further *)
(* insert into it: the repeated LockTable(X) of InsertExecutor::Init does  *)
(* not abort the transaction and does not make the executor fail (it goes  *)
(* on to Next), and the transaction holds exactly one X lock on the table  *)
(* afterwards.                                                             *)
(***************************************************************************)
C40_RepeatedInsertRuns ==
    [][\A t \in TxTxns :
          (InsertInit(t) /\ TheTable \in tableLockSet[t]["X"]) =>
              /\ txnState'[t] = txnState[t]
              /\ op'[t].kind = "insert" /\ op'[t].stage = "next"
              /\ TheTable \in tableLockSet'[t]["X"]
              /\ Cardinality({i \in 1..Len(tableQ'[TheTable]) :
                                 tableQ'[TheTable][i].txn = t}) = 1]_vars

\* the Init of a further insert has failed in a transaction that holds the X
\* lock of the table and is not aborted
C40_SecondInsertFailed ==
    \E t \in TxTxns :
        /\ op[t].kind = "insert" /\ op[t].stage = "failed"
        /\ TheTable \in tableLockSet[t]["X"]
        /\ txnState[t] = "GROWING"
        /\ \E rid \in 1..Len(heap) : heap[rid].insert_txn_id = t

(***************************************************************************)
(* SpecVictim: the clients of SpecDeadlock, which may also ask again for a *)
(* table they hold (an upgrade from S to X), next to the detector.         *)
(***************************************************************************)
NextVictim ==
    \/ \E t \in Txns, m \in DLModes, oid \in Tables : LockTableCall(t, m, oid)
    \/ \E t \in Txns : Wake(t)
    \/ \E t \in Txns : Commit(t)
    \/ \E t \in Txns : AbortAborted(t)
    \/ \E t \in Txns : ReleaseLocksTable(t)
    \/ \E t \in Txns : CommitFinish(t)
    \/ \E t \in Txns : AbortReleased(t)
    \/ \E t \in Txns : AbortFinish(t)
    \/ RunCycleDetection

SpecVictim == InitDeadlock /\ [][NextVictim]_vars

(***************************************************************************)
(* C33.  When a transaction that is blocked in LockTable or LockRow has    *)
(* been set to ABORTED and wakes up, its call returns false: the thread is *)
(* out of the wait, its request is no longer in the queue, the upgrading   *)
(* slot of the queue is cleared if it was its own (and kept otherwise),    *)
(* the other waiters of the queue are notified, and the lock sets of the   *)
(* transaction are as they were.                                           *)
(***************************************************************************)
C33_AbortedWaiterReturnsFalse ==
    [][\A t \in Txns :
          (Wake(t) /\ txnState[t] = "ABORTED") =>
              LET w == waitOn[t]
              IN /\ pc'[t] = "run" /\ waitOn'[t] = NoWait
                 /\ tableLockSet'[t] = tableLockSet[t]
                 /\ rowLockSet'[t] = rowLockSet[t]
                 /\ IF w.kind = "table"
                    THEN /\ ~HasTxn(tableQ'[w.oid], t)
                         /\ tableUpg'[w.oid] = IF tableUpg[w.oid] = t THEN INVALID_TXN_ID
                                               ELSE tableUpg[w.oid]
                         /\ TableWaiters(w.oid) \ {t} \subseteq notified'
                    ELSE /\ ~HasTxn(rowQ'[w.rid], t)
                         /\ rowUpg'[w.rid] = IF rowUpg[w.rid] = t THEN INVALID_TXN_ID
                                             ELSE rowUpg[w.rid]
                         /\ RowWaiters(w.rid) \ {t} \subseteq notified']_vars

\* a victim of the detector is back from its lock call: it is ABORTED by no
\* exception of its own, it waits no more and has no request left that is not
\* granted, and it still holds the locks it had
C33_VictimBackFromWait ==
    \E t \in Txns :
        /\ txnState[t] = "ABORTED" /\ abortReason[t] = "none"
        /\ pc[t] = "run" /\ op[t] = NoOp
        /\ HeldRows(t) \cup HeldTables(t) # {}
        /\ \A q \in AllQueues : \A i \in 1..Len(q) : q[i].txn = t => q[i].granted

(***************************************************************************)
(* SpecMap: the accesses to table_lock_map_ and row_lock_map_.  A call of  *)
(* the lock manager stops where it takes a map mutex, between the start    *)
(* and the end of an insertion into a map, and where it reads a map; what  *)
(* it does on the queue afterwards is one step, as in the other            *)
(* specifications.  The detector is a thread of its own.                   *)
(***************************************************************************)
MapTableModes == {"IX", "X"}

MapIdle(t) == Idle(t) /\ mpc[t] = NoMapCall

\* LockTable lines 25-31: CanTxnTakeLock has passed, the thread takes
\* table_lock_map_latch_ and looks the oid up
LockTableLatch(t, lock_mode, oid) ==
    /\ MapIdle(t)
    /\ CanTxnTakeLock(t, lock_mode) = "ok"
    /\ table_lock_map_latch_ = {}
    /\ table_lock_map_latch_' = {t}
    /\ mpc' = [mpc EXCEPT ![t] = [at |-> IF oid \in table_lock_map_ THEN "table_get"
                                          ELSE "table_insert",
                                  mode |-> lock_mode, oid |-> oid, rid |-> 0]]
    /\ UNCHANGED <<storeVars, txnState, iso, abortReason, tableLockSet, rowLockSet, tableQ,
                   tableUpg, rowQ, rowUpg, pc, waitOn, notified, graphVars, op, txVars,
                   table_lock_map_, row_lock_map_, row_lock_map_latch_>>

\* LockTable throws before it reaches the map
LockTableThrows(t, lock_mode, oid) ==
    /\ mpc[t] = NoMapCall
    /\ CanTxnTakeLock(t, lock_mode) # "ok"
    /\ LockTableCall(t, lock_mode, oid)

\* line 32: the new queue is in the map
LockTableInsert(t) ==
    /\ mpc[t].at = "table_insert"
    /\ table_lock_map_' = table_lock_map_ \cup {mpc[t].oid}
    /\ mpc' = [mpc EXCEPT ![t].at = "table_get"]
    /\ UNCHANGED <<storeVars, txnState, iso, abortReason, tableLockSet, rowLockSet, tableQ,
                   tableUpg, rowQ, rowUpg, pc, waitOn, notified, graphVars, op, txVars,
                   row_lock_map_, table_lock_map_latch_, row_lock_map_latch_>>

\* lines 34-35: the queue is read and the mutex released; lines 37-104 on the queue
LockTableRest(t) ==
    /\ mpc[t].at = "table_get"
    /\ table_lock_map_latch_' = table_lock_map_latch_ \ {t}
    /\ mpc' = [mpc EXCEPT ![t] = NoMapCall]
    /\ ApplyTable(t, mpc[t].oid, mpc[t].mode, LockTable(t, mpc[t].mode, mpc[t].oid))
    /\ UNCHANGED <<storeVars, iso, graphVars, op, txVars,
                   table_lock_map_, row_lock_map_, row_lock_map_latch_>>

\* UnlockTable lines 111-166: the checks have passed and the thread reads the map
\* (the state change of lines 139-163 is applied with the rest of the call)
UnlockTableAt(t, oid) ==
    /\ MapIdle(t)
    /\ UnlockTable(t, oid).out = "true"
    /\ mpc' = [mpc EXCEPT ![t] = [NoMapCall EXCEPT !.at = "table_at", !.oid = oid]]
    /\ UNCHANGED <<storeVars, txnState, iso, abortReason, tableLockSet, rowLockSet, tableQ,
                   tableUpg, rowQ, rowUpg, pc, waitOn, notified, graphVars, op, txVars,
                   table_lock_map_, row_lock_map_, table_lock_map_latch_, row_lock_map_latch_>>

UnlockTableThrows(t, oid) ==
    /\ mpc[t] = NoMapCall
    /\ UnlockTable(t, oid).out # "true"
    /\ UnlockTableCall(t, oid)

\* lines 167-176
UnlockTableRest(t) ==
    /\ mpc[t].at = "table_at"
    /\ mpc' = [mpc EXCEPT ![t] = NoMapCall]
    /\ ApplyTable(t, mpc[t].oid, "none", UnlockTable(t, mpc[t].oid))
    /\ UNCHANGED <<storeVars, iso, graphVars, op, txVars,
                   table_lock_map_, row_lock_map_, table_lock_map_latch_, row_lock_map_latch_>>

\* LockRow returns false or throws before line 199
RowCallStopsEarly(t, lock_mode, rid) ==
    LET r == LockRow(t, lock_mode, TableOf(rid), rid)
    IN r.out = "false" \/ (r.out = "throw" /\ r.reason # "UPGRADE_CONFLICT")

\* LockRow lines 199-200
LockRowLatch(t, lock_mode, rid) ==
    /\ MapIdle(t)
    /\ ~RowCallStopsEarly(t, lock_mode, rid)
    /\ row_lock_map_latch_ = {}
    /\ row_lock_map_latch_' = {t}
    /\ mpc' = [mpc EXCEPT ![t] = [at |-> IF rid \in row_lock_map_ THEN "row_get"
                                          ELSE "row_insert",
                                  mode |-> lock_mode, oid |-> TableOf(rid), rid |-> rid]]
    /\ UNCHANGED <<storeVars, txnState, iso, abortReason, tableLockSet, rowLockSet, tableQ,
                   tableUpg, rowQ, rowUpg, pc, waitOn, notified, graphVars, op, txVars,
                   table_lock_map_, row_lock_map_, table_lock_map_latch_>>

LockRowStops(t, lock_mode, rid) ==
    /\ mpc[t] = NoMapCall
    /\ RowCallStopsEarly(t, lock_mode, rid)
    /\ LockRowCall(t, lock_mode, rid)

\* line 201
LockRowInsert(t) ==
    /\ mpc[t].at = "row_insert"
    /\ row_lock_map_' = row_lock_map_ \cup {mpc[t].rid}
    /\ mpc' = [mpc EXCEPT ![t].at = "row_get"]
    /\ UNCHANGED <<storeVars, txnState, iso, abortReason, tableLockSet, rowLockSet, tableQ,
                   tableUpg, rowQ, rowUpg, pc, waitOn, notified, graphVars, op, txVars,
                   table_lock_map_, table_lock_map_latch_, row_lock_map_latch_>>

\* lines 203-207: the queue is read, its latch taken and the mutex released; then
\* the rest of the call on the queue
LockRowRest(t) ==
    /\ mpc[t].at = "row_get"
    /\ row_lock_map_latch_' = row_lock_map_latch_ \ {t}
    /\ mpc' = [mpc EXCEPT ![t] = NoMapCall]
    /\ ApplyRow(t, mpc[t].rid, mpc[t].mode, LockRow(t, mpc[t].mode, mpc[t].oid, mpc[t].rid))
    /\ UNCHANGED <<storeVars, iso, graphVars, op, txVars,
                   table_lock_map_, row_lock_map_, table_lock_map_latch_>>

\* UnlockRow up to line 301
UnlockRowAt(t, rid) ==
    /\ MapIdle(t)
    /\ UnlockRow(t, TableOf(rid), rid, FALSE).out = "true"
    /\ mpc' = [mpc EXCEPT ![t] = [NoMapCall EXCEPT !.at = "row_at", !.oid = TableOf(rid),
                                                   !.rid = rid]]
    /\ UNCHANGED <<storeVars, txnState, iso, abortReason, tableLockSet, rowLockSet, tableQ,
                   tableUpg, rowQ, rowUpg, pc, waitOn, notified, graphVars, op, txVars,
                   table_lock_map_, row_lock_map_, table_lock_map_latch_, row_lock_map_latch_>>

UnlockRowThrows(t, rid) ==
    /\ mpc[t] = NoMapCall
    /\ UnlockRow(t, TableOf(rid), rid, FALSE).out # "true"
    /\ UnlockRowCall(t, rid)

\* lines 302-311
UnlockRowRest(t) ==
    /\ mpc[t].at = "row_at"
    /\ mpc' = [mpc EXCEPT ![t] = NoMapCall]
    /\ ApplyRow(t, mpc[t].rid, "none", UnlockRow(t, mpc[t].oid, mpc[t].rid, FALSE))
    /\ UNCHANGED <<storeVars, iso, graphVars, op, txVars,
                   table_lock_map_, row_lock_map_, table_lock_map_latch_, row_lock_map_latch_>>

\* RunCycleDetection lines 581-584: the pass starts, the detector takes
\* table_lock_map_latch_ and iterates over the table map
DetectTables ==
    /\ mpc[DetectorThread] = NoMapCall
    /\ table_lock_map_latch_ = {}
    /\ table_lock_map_latch_' = {DetectorThread}
    /\ waits_for' = EmptyGraph
    /\ mpc' = [mpc EXCEPT ![DetectorThread].at = "scan_tables"]
    /\ UNCHANGED <<storeVars, txnState, iso, abortReason, tableLockSet, rowLockSet, tableQ,
                   tableUpg, rowQ, rowUpg, pc, waitOn, notified, cycleRes, op, txVars,
                   table_lock_map_, row_lock_map_, row_lock_map_latch_>>

\* lines 585-600: the edges of the table queues are in the graph, the table mutex is
\* released and the row mutex taken
DetectRows ==
    /\ mpc[DetectorThread].at = "scan_tables"
    /\ row_lock_map_latch_ = {}
    /\ table_lock_map_latch_' = {}
    /\ row_lock_map_latch_' = {DetectorThread}
    /\ waits_for' = TableEdges(waits_for, SortedSeq(Tables))
    /\ mpc' = [mpc EXCEPT ![DetectorThread].at = "scan_rows"]
    /\ UNCHANGED <<storeVars, txnState, iso, abortReason, tableLockSet, rowLockSet, tableQ,
                   tableUpg, rowQ, rowUpg, pc, waitOn, notified, cycleRes, op, txVars,
                   table_lock_map_, row_lock_map_>>

\* lines 601-631: the edges of the row queues, the sort, and the loop that aborts a
\* victim per cycle; lines 632-633: with a victim the detector goes on to the
\* broadcast and iterates over the table map
DetectAbort ==
    /\ mpc[DetectorThread].at = "scan_rows"
    /\ row_lock_map_latch_' = {}
    /\ \E g \in {RowEdges(waits_for, SortedSeq(Rows))} :
       \E d \in {DetectLoop([t \in GraphTxns |-> SortedSeq({g[t][i] : i \in 1..Len(g[t])})], {})} :
          /\ waits_for' = d.wf
          /\ txnState' = [t \in Txns |-> IF t \in d.victims THEN "ABORTED" ELSE txnState[t]]
          /\ mpc' = [mpc EXCEPT ![DetectorThread].at =
                         IF d.victims # {} THEN "broadcast_tables" ELSE "none"]
    /\ UNCHANGED <<storeVars, iso, abortReason, tableLockSet, rowLockSet, tableQ,
                   tableUpg, rowQ, rowUpg, pc, waitOn, notified, cycleRes, op, txVars,
                   table_lock_map_, row_lock_map_, table_lock_map_latch_>>

\* lines 633-636: notify_all on every table queue; the row map is iterated next
BroadcastTables ==
    /\ mpc[DetectorThread].at = "broadcast_tables"
    /\ notified' = notified \cup UNION {TableWaiters(oid) : oid \in table_lock_map_}
    /\ mpc' = [mpc EXCEPT ![DetectorThread].at = "broadcast_rows"]
    /\ UNCHANGED <<storeVars, txnState, iso, abortReason, tableLockSet, rowLockSet, tableQ,
                   tableUpg, rowQ, rowUpg, pc, waitOn, graphVars, op, txVars,
                   table_lock_map_, row_lock_map_, table_lock_map_latch_, row_lock_map_latch_>>

\* lines 636-638
BroadcastRows ==
    /\ mpc[DetectorThread].at = "broadcast_rows"
    /\ notified' = notified \cup UNION {RowWaiters(rid) : rid \in row_lock_map_}
    /\ mpc' = [mpc EXCEPT ![DetectorThread] = NoMapCall]
    /\ UNCHANGED <<storeVars, txnState, iso, abortReason, tableLockSet, rowLockSet, tableQ,
                   tableUpg, rowQ, rowUpg, pc, waitOn, graphVars, op, txVars,
                   table_lock_map_, row_lock_map_, table_lock_map_latch_, row_lock_map_latch_>>

\* the positions at which a thread reads or writes each map
TableMapAccess(th) ==
    mpc[th].at \in {"table_insert", "table_get", "table_at", "scan_tables", "broadcast_tables"}

RowMapAccess(th) ==
    mpc[th].at \in {"row_insert", "row_get", "row_at", "scan_rows", "broadcast_rows"}

\* th reads a map while another thread is inserting a queue into it
ReadsDuringInsert(th) ==
    \/ TableMapAccess(th) /\ \E u \in MapThreads \ {th} : mpc[u].at = "table_insert"
    \/ RowMapAccess(th) /\ \E u \in MapThreads \ {th} : mpc[u].at = "row_insert"

\* a read of a std::unordered_map that runs while another thread inserts is
\* undefined: next to finding what it looks for, the reader may be lost
RacedRead(th) ==
    /\ mpc[th].at \in {"table_at", "row_at", "broadcast_tables", "broadcast_rows"}
    /\ ReadsDuringInsert(th)
    /\ mpc' = [mpc EXCEPT ![th].at = "undefined"]
    /\ UNCHANGED <<storeVars, txnState, iso, abortReason, tableLockSet, rowLockSet, tableQ,
                   tableUpg, rowQ, rowUpg, pc, waitOn, notified, graphVars, op, txVars,
                   table_lock_map_, row_lock_map_, table_lock_map_latch_, row_lock_map_latch_>>

NextMap ==
    \/ \E t \in LMTxns, m \in MapTableModes, oid \in Tables : LockTableLatch(t, m, oid)
    \/ \E t \in LMTxns, m \in MapTableModes, oid \in Tables : LockTableThrows(t, m, oid)
    \/ \E t \in LMTxns : LockTableInsert(t)
    \/ \E t \in LMTxns : LockTableRest(t)
    \/ \E t \in LMTxns, oid \in Tables : UnlockTableAt(t, oid)
    \/ \E t \in LMTxns, oid \in Tables : UnlockTableThrows(t, oid)
    \/ \E t \in LMTxns : UnlockTableRest(t)
    \/ \E t \in LMTxns, m \in RowModes, rid \in LMRows : LockRowLatch(t, m, rid)
    \/ \E t \in LMTxns, m \in RowModes, rid \in LMRows : LockRowStops(t, m, rid)
    \/ \E t \in LMTxns : LockRowInsert(t)
    \/ \E t \in LMTxns : LockRowRest(t)
    \/ \E t \in LMTxns, rid \in LMRows : UnlockRowAt(t, rid)
    \/ \E t \in LMTxns, rid \in LMRows : UnlockRowThrows(t, rid)
    \/ \E t \in LMTxns : UnlockRowRest(t)
    \/ \E t \in LMTxns : Wake(t)
    \/ DetectTables
    \/ DetectRows
    \/ DetectAbort
    \/ BroadcastTables
    \/ BroadcastRows
    \/ \E th \in MapThreads : RacedRead(th)

SpecMap == InitDeadlock /\ [][NextMap]_vars

(***************************************************************************)
(* C39.  A thread that reads or writes table_lock_map_ holds               *)
(* table_lock_map_latch_, and one that reads or writes row_lock_map_ holds *)
(* row_lock_map_latch_.                                                    *)
(***************************************************************************)
C39_MapAccessUnderMutex ==
    \A th \in MapThreads :
        /\ TableMapAccess(th) => th \in table_lock_map_latch_
        /\ RowMapAccess(th) => th \in row_lock_map_latch_

\* UnlockTable reads table_lock_map_ while another thread is between the start and
\* the end of the insertion of a new table queue
C39_UnlockReadsDuringInsert ==
    \E t \in LMTxns, u \in LMTxns :
        /\ mpc[t].at = "table_at"
        /\ mpc[u].at = "table_insert"
        /\ table_lock_map_latch_ = {u}

(***************************************************************************)
(* C32.  The graph the detector builds from the queues as they stand has a *)
(* cycle if and only if the real waits-for relation has one, where a       *)
(* transaction with a request that is not granted waits for every other    *)
(* transaction that has a granted request in the same queue.               *)
(***************************************************************************)
RealWaitsFor(a, b) ==
    /\ a # b
    /\ \E q \in AllQueues : \E i, j \in 1..Len(q) :
          /\ q[i].txn = a /\ ~q[i].granted
          /\ q[j].txn = b /\ q[j].granted

RealCycle(S) ==
    \E c \in [1..Cardinality(S) -> S] :
        /\ \A i, j \in DOMAIN c : i # j => c[i] # c[j]
        /\ \A i \in DOMAIN c : RealWaitsFor(c[i], c[(i % Cardinality(S)) + 1])

RealDeadlock == \E S \in SUBSET Txns : Cardinality(S) >= 2 /\ RealCycle(S)

C32_DetectorCycleIffRealCycle == HasCycle(BuildWaitsFor).found <=> RealDeadlock

\* the half of C32 that holds: a cycle of the detector's graph is a real deadlock
NoFalseCycle == HasCycle(BuildWaitsFor).found => RealDeadlock

\* a real deadlock of two transactions that the graph of the detector does not show:
\* one of them is queued behind a third transaction, which waits for nothing
C32_MissedDeadlock ==
    /\ \E S \in SUBSET Txns : Cardinality(S) = 2 /\ RealCycle(S)
    /\ ~HasCycle(BuildWaitsFor).found
    /\ \E t \in Txns : pc[t] = "run" /\ op[t] = NoOp /\ txnState[t] = "GROWING"
                       /\ \E u \in Txns : pc[u] = "wait"
                              /\ Len(BuildWaitsFor[u]) = 1 /\ BuildWaitsFor[u][1] = t

(***************************************************************************)
(* SpecBegin: one thread inserts keys, then calls Begin(key) and iterates  *)
(* to the end.                                                             *)
(***************************************************************************)
\* the second component of BPlusTreeLeafPage::Find: the index (from 0) of key in the
\* leaf, and 0 when the leaf does not hold key
LeafFindIndex(page, key) ==
    IF LeafFind(page, key) = 0 THEN 0 ELSE LeafFind(page, key) - 1

InsertBeforeBegin(key) == iter.state = "none" /\ InsertCall(key)

\* BPlusTree::Begin(key); as Begin(), it fetches page INVALID_PAGE_ID on a tree
\* without root
BeginKey(key) ==
    /\ tpc[1] = "idle"
    /\ iter.state = "none"
    /\ tkey' = [tkey EXCEPT ![1] = key]
    /\ IF root_page_id_ = INVALID_PAGE_ID
       THEN iter' \in {[NoIter EXCEPT !.state = s] : s \in {"crashed", "looping"}}
       ELSE LET leaf == FindLeaf(treePages, root_page_id_, key)
            IN iter' = [state |-> "valid", page_id_ |-> leaf,
                        index_ |-> LeafFindIndex(treePages[leaf], key)]
    /\ UNCHANGED <<treePages, root_page_id_, latch, tpc, todo, ctx, tpage, rets, emitted>>
    /\ UNCHANGED <<replacerVars, poolVars, lmVars, txVars, guardVars>>

NextBegin ==
    \/ \E key \in Keys : InsertBeforeBegin(key)
    \/ \E key \in Keys : BeginKey(key)
    \/ IterNext

SpecBegin == InitTreeOps /\ [][NextBegin]_vars

(***************************************************************************)
(* C34.  Begin(key) stands at the first stored entry whose key is >= key,  *)
(* and the iteration from it to the end yields exactly the stored keys     *)
(* >= key in ascending order.                                              *)
(***************************************************************************)
KeysFrom(key) == {k \in StoredKeys : k >= key}

C34_BeginKeyAtLowerBound ==
    iter.state = "valid" =>
        /\ (emitted = << >> /\ KeysFrom(tkey[1]) # {}) =>
               /\ iter.index_ < GetSize(treePages[iter.page_id_])
               /\ treePages[iter.page_id_].array_[iter.index_ + 1].first
                      = Head(SortedSeq(KeysFrom(tkey[1])))
        /\ IsEnd(iter) => emitted = SortedSeq(KeysFrom(tkey[1]))

\* an iteration from Begin(key), for a key that is not stored, has yielded a key
\* below it
C34_KeyBelowEmitted ==
    /\ iter.state = "valid"
    /\ IsEnd(iter)
    /\ tkey[1] \notin StoredKeys
    /\ \E i \in 1..Len(emitted) : emitted[i] < tkey[1]

(***************************************************************************)
(* SpecPool: Insert on a buffer pool that runs out of frames.  frames is   *)
(* the number of pages the call can have pinned at once (the frames of the *)
(* pool that no other thread has pinned); NewPage and FetchPage of a page  *)
(* that is not resident return nullptr when that many are pinned.  The     *)
(* other threads may pin and unpin during the call: later is that number   *)
(* once the call has its new leaf.                                         *)
(***************************************************************************)
CallFrames == 2..MaxCallFrames

\* the pages the call has pinned: the header page while the Context holds it, and
\* the pages of the write set
Pins(c) == (IF c.header_page_ THEN 1 ELSE 0) + Len(c.write_set_)

\* every FetchPageWrite of the descent (line 105) finds a frame
RECURSIVE DescentFits(_, _, _, _)
DescentFits(pages, c, key, frames) ==
    LET page == pages[c.write_set_[Len(c.write_set_)]]
        child == InternalFind(page, key)
    IN IF IsLeafPage(page) THEN TRUE
       ELSE /\ Pins(c) < frames
            /\ DescentFits(pages,
                           IF ~IsFull(pages[child])
                           THEN [c EXCEPT !.header_page_ = FALSE, !.write_set_ = <<child>>]
                           ELSE [c EXCEPT !.write_set_ = Append(@, child)],
                           key, frames)

\* InsertInParent while Insert holds the guard of the new leaf (one more pin).
\* NewPageGuarded returns a guard without page when no frame is left, and AsMut
\* (lines 163, 180) dereferences it: the call ends there, with the tree as it is.
RECURSIVE InsertInParentPool(_, _, _, _, _)
InsertInParentPool(tree, c, key, right_child_pid, frames) ==
    LET left_child_pid == c.write_set_[Len(c.write_set_)]
        popped == SubSeq(c.write_set_, 1, Len(c.write_set_) - 1)
    IN IF left_child_pid = c.root_page_id_
       THEN IF Pins(c) + 1 >= frames THEN [failed |-> TRUE, tree |-> tree]
            ELSE [failed |-> FALSE, tree |-> InsertInParent(tree, c, key, right_child_pid)]
       ELSE LET parent_pid == popped[Len(popped)]
                parent_page == tree.pages[parent_pid]
                array == InsertAt(parent_page.array_,
                                  UpperBound(parent_page.array_, 2, key),
                                  KV(key, right_child_pid))
                min_size == GetMinSize(parent_page)
                split == [tree EXCEPT !.pages =
                             Append([tree.pages EXCEPT ![parent_pid] =
                                        SetArray(parent_page, array, 0, min_size)],
                                    SetArray(InternalInit(tree.internal_page_size_),
                                             array, min_size, Len(array)))]
            IN IF ~IsFull(parent_page)
               THEN [failed |-> FALSE, tree |-> InsertInParent(tree, c, key, right_child_pid)]
               ELSE IF Pins(c) >= frames THEN [failed |-> TRUE, tree |-> tree]
               ELSE InsertInParentPool(split, [c EXCEPT !.write_set_ = popped],
                                       array[min_size + 1].first, Len(tree.pages) + 1, frames)

\* the page ids new_pid can hold when NewPageGuarded (line 137) has failed and left it
\* uninitialized, and FetchPageWrite(new_pid) returns a page: a page of the tree
\* that the call has not latched
StrayPageIds(tree, c) == (1..Len(tree.pages)) \ {c.write_set_[i] : i \in 1..Len(c.write_set_)}

\* lines 138-150 with the new leaf at new_pid, which is a new page or, after a
\* failed NewPageGuarded, a page of the tree that new_pid happens to name
SplitLeafAt(tree, c, key, value, new_pid, frames) ==
    LET leaf_pid == c.write_set_[Len(c.write_set_)]
        old_leaf == tree.pages[leaf_pid]
        array == InsertAt(old_leaf.array_, UpperBound(old_leaf.array_, 1, key), KV(key, value))
        old_size == (old_leaf.max_size + 1) \div 2
        new_leaf == [SetArray(LeafInit(tree.leaf_max_size_), array, old_size, Len(array))
                        EXCEPT !.next_page_id_ = old_leaf.next_page_id_]
        left == [SetArray(old_leaf, array, 0, old_size) EXCEPT !.next_page_id_ = new_pid]
        pages1 == [tree.pages EXCEPT ![leaf_pid] = left]
        split == [tree EXCEPT !.pages = IF new_pid = Len(tree.pages) + 1
                                        THEN Append(pages1, new_leaf)
                                        ELSE [pages1 EXCEPT ![new_pid] = new_leaf]]
    IN InsertInParentPool(split, c, new_leaf.array_[1].first, new_pid, frames)

\* the Context at the leaf, for a tree with a root
LeafContext(tree, key) ==
    InsertDescendAll(tree.pages, [header_page_ |-> TRUE, root_page_id_ |-> tree.root,
                                  write_set_ |-> <<tree.root>>], key)

\* the leaf is full, the key is new, and no frame is left for the new leaf
LeafAllocFails(tree, key, frames) ==
    LET c == LeafContext(tree, key)
        old_leaf == tree.pages[c.write_set_[Len(c.write_set_)]]
    IN /\ IsFull(old_leaf)
       /\ LeafFind(old_leaf, key) = 0
       /\ Pins(c) >= frames

\* Insert with the pool: what the call leaves behind and how it ends.  When the
\* allocation of the new leaf fails new_pid is read uninitialized (line 138):
\* FetchPageWrite returns nullptr and the call crashes on it, or new_pid names a
\* page the call has latched and the call hangs on its latch, or it names another
\* page of the tree, which becomes the new leaf.
InsertPool(tree, key, value, oob, frames, later) ==
    IF tree.root = INVALID_PAGE_ID \/ ~LeafAllocFails(tree, key, frames)
    THEN LET c == LeafContext(tree, key)
             old_leaf == tree.pages[c.write_set_[Len(c.write_set_)]]
         IN IF tree.root = INVALID_PAGE_ID \/ ~IsFull(old_leaf) \/ LeafFind(old_leaf, key) # 0
            THEN {[end |-> "idle", tree |-> Canon(Insert(tree, key, value, oob).tree)]}
            ELSE LET r == SplitLeafAt(tree, c, key, value, Len(tree.pages) + 1, later)
                 IN {[end |-> IF r.failed THEN "crashed" ELSE "idle",
                      tree |-> IF r.failed THEN r.tree ELSE Canon(r.tree)]}
    ELSE {[end |-> e, tree |-> tree] : e \in {"crashed", "hung"}}
         \cup {[end |-> "undefined",
                tree |-> SplitLeafAt(tree, LeafContext(tree, key), key, value, p, later).tree] :
                   p \in StrayPageIds(tree, LeafContext(tree, key))}

InsertPoolCall(key, frames, later) ==
    /\ tpc[1] = "idle"
    /\ root_page_id_ # INVALID_PAGE_ID =>
           DescentFits(treePages, [header_page_ |-> TRUE, root_page_id_ |-> root_page_id_,
                                   write_set_ |-> <<root_page_id_>>], key, frames)
    /\ \E oob \in OobOutcomes : \E res \in InsertPool(Tree, key, RidOf(key), oob, frames, later) :
          /\ treePages' = res.tree.pages
          /\ root_page_id_' = res.tree.root
          /\ tpc' = [tpc EXCEPT ![1] = res.end]
    /\ UNCHANGED <<latch, tkey, todo, ctx, tpage, rets, iter, emitted>>
    /\ UNCHANGED <<replacerVars, poolVars, lmVars, txVars, guardVars>>

NextPool == \E key \in Keys, frames, later \in CallFrames : InsertPoolCall(key, frames, later)

SpecPool == InitTreeOps /\ [][NextPool]_vars

(***************************************************************************)
(* C36.  An Insert that cannot get a page from the buffer pool for the new *)
(* leaf, for the new page of a split parent or for the new root leaves     *)
(* the tree as it was: no page of it is changed and the root is the same.  *)
(***************************************************************************)
C36_FailedInsertLeavesTree ==
    [][tpc'[1] \in {"crashed", "hung", "undefined"} =>
          /\ root_page_id_' = root_page_id_
          /\ \A p \in 1..Len(treePages) : treePages'[p] = treePages[p]]_vars

\* the allocation of the new root has failed after the split of the root leaf: the
\* entries of the new leaf are in no page that can be reached from the root
C36_SplitLeafWithoutParent ==
    /\ tpc[1] = "crashed"
    /\ IsLeafPage(treePages[root_page_id_])
    /\ treePages[root_page_id_].next_page_id_ = Len(treePages)
    /\ Len(treePages) \notin TreePageIds
    /\ treePages[Len(treePages)].array_ # << >>

(***************************************************************************)
(* SpecDisk: the buffer pool over a disk whose reads and writes can fail.  *)
(* A failed ReadPage or WritePage raises an error that nothing in NewPage, *)
(* FetchPage or FlushPage catches, so the call ends at that line.  The     *)
(* clients create, fetch, write and unpin pages.                           *)
(***************************************************************************)
ReturnedError == [ok |-> FALSE, page_id |-> INVALID_PAGE_ID, error |-> TRUE]

\* lines 37-56 / 66-90 have run and ReadPage (line 57 / 91) fails: the frame has
\* left the free list or the replacer, the page of a victim has been flushed and
\* has left the page table, the frame carries the new page id
ReadFails(tf, page_id) ==
    /\ tf.ok
    /\ pages_' = [tf.pages EXCEPT ![tf.frame].page_id = page_id]
    /\ page_table_' = tf.table
    /\ free_list_' = tf.free
    /\ disk_' = tf.disk
    /\ evictRes' = tf.evict
    /\ SetReplacer(tf.r)
    /\ bpmRes' = ReturnedError

\* the free list is empty, the replacer has given a victim with a dirty page and
\* WritePage in FlushPage (line 47 / 82) fails: the replacer has dropped the frame
WriteFails ==
    /\ free_list_ = << >>
    /\ curr_size_ > 0
    /\ pages_[frames_[1]].is_dirty
    /\ evictRes' = [ok |-> TRUE, frame |-> frames_[1]]
    /\ SetReplacer(ReplacerEvict(Replacer))
    /\ bpmRes' = ReturnedError
    /\ UNCHANGED <<pages_, page_table_, free_list_, disk_>>

NewPageReadFails ==
    /\ next_page_id_ < MaxPages
    /\ ReadFails(TakeFrame, next_page_id_)
    /\ next_page_id_' = next_page_id_ + 1
    /\ UNCHANGED <<treeVars, lmVars, txVars, guardVars>>

NewPageWriteFails ==
    /\ next_page_id_ < MaxPages
    /\ WriteFails
    /\ UNCHANGED <<next_page_id_, treeVars, lmVars, txVars, guardVars>>

FetchPageReadFails(page_id) ==
    /\ page_id \notin DOMAIN page_table_
    /\ ReadFails(TakeFrame, page_id)
    /\ UNCHANGED <<next_page_id_, treeVars, lmVars, txVars, guardVars>>

FetchPageWriteFails(page_id) ==
    /\ page_id \notin DOMAIN page_table_
    /\ WriteFails
    /\ UNCHANGED <<next_page_id_, treeVars, lmVars, txVars, guardVars>>

DiskFails ==
    \/ NewPageReadFails
    \/ NewPageWriteFails
    \/ \E p \in Allocated : FetchPageReadFails(p)
    \/ \E p \in Allocated : FetchPageWriteFails(p)

NextDisk ==
    \/ NewPage
    \/ \E p \in Allocated : FetchPage(p)
    \/ \E p \in Allocated, d \in BOOLEAN : UnpinPage(p, d)
    \/ \E p \in Allocated, d \in PageData : WriteData(p, d)
    \/ NewPageReadFails
    \/ NewPageWriteFails
    \/ \E p \in Allocated : FetchPageReadFails(p)
    \/ \E p \in Allocated : FetchPageWriteFails(p)

SpecDisk == InitBPM /\ [][NextDisk]_vars

\* the frames that are in the free list or hold a page of the page table
FramesInUse ==
    {free_list_[i] : i \in 1..Len(free_list_)} \cup {page_table_[p] : p \in DOMAIN page_table_}

(***************************************************************************)
(* C37.  A NewPage or FetchPage whose disk read or write fails leaves the  *)
(* page table, the free list, the evictable frames of the replacer and the *)
(* pin counts as they were, and every frame is still in the free list or   *)
(* in the page table.                                                      *)
(***************************************************************************)
C37_DiskFailureLeavesPool ==
    [][DiskFails =>
          /\ page_table_' = page_table_
          /\ free_list_' = free_list_
          /\ Evictable(node_store_') = Evictable(node_store_)
          /\ \A f \in PoolFrames : pages_'[f].pin_count = pages_[f].pin_count
          /\ FramesInUse' = PoolFrames]_vars

\* after a failed read a frame is neither free nor in the page table, and the
\* replacer does not know it
C37_FrameLost ==
    /\ bpmRes = ReturnedError
    /\ \E f \in PoolFrames : f \notin FramesInUse /\ f \notin DOMAIN node_store_







(***************************************************************************)
(* SpecCrab: the threads call GetValue, Insert, Remove and Begin on one    *)
(* tree at the same time.  The run starts with the tree that holds the     *)
(* keys of every thread, inserted in ascending order by calls that did not *)
(* overlap.  A thread stops wherever FetchPageRead or FetchPageWrite can   *)
(* block.  A reader keeps one ReadPageGuard: the assignment                *)
(* guard = FetchPageRead(child) takes the latch of the child and then lets *)
(* go of the page above.  The iterator that Begin returns holds no latch   *)
(* and its caller does not walk it.                                        *)
(***************************************************************************)
EmptyTree ==
    [pages |-> << >>, root |-> INVALID_PAGE_ID, asserted |-> TRUE, fetched |-> {},
     kept |-> {}, read |-> {}, again |-> FALSE,
     leaf_max_size_ |-> LeafMaxSize, internal_page_size_ |-> INTERNAL_PAGE_SIZE]

\* the tree after Insert(1), ..., Insert(n)
RECURSIVE TreeOfKeys(_)
TreeOfKeys(n) ==
    IF n = 0 THEN EmptyTree ELSE Insert(TreeOfKeys(n - 1), n, RidOf(n), FALSE).tree

StartTree == TreeOfKeys(NumThreads * KeysPerThread)

\* the key that thread t inserts during the run, and the keys it removes: all
\* of its range but the last
CrabNewKey(t) == NumThreads * KeysPerThread + t

CrabRemoveKeys(t) == ThreadKeys(t) \ {t * KeysPerThread}

\* FetchPageRead returns once no WritePageGuard holds the latch of the page
ReadLatchFree(page_id) == page_id \notin DOMAIN latch

\* GetValue is called and takes the read latch of the header page
GetValueHeader(t, key) ==
    /\ tpc[t] = "idle"
    /\ ReadLatchFree(HEADER_PAGE_ID)
    /\ tpc' = [tpc EXCEPT ![t] = "get_header"]
    /\ tkey' = [tkey EXCEPT ![t] = key]
    /\ UNCHANGED <<treePages, root_page_id_, latch, todo, ctx, tpage, rets, iter, emitted>>
    /\ UNCHANGED <<replacerVars, poolVars, lmVars, txVars, guardVars>>

\* Begin is called and takes the read latch of the header page
BeginHeader(t) ==
    /\ tpc[t] = "idle"
    /\ ReadLatchFree(HEADER_PAGE_ID)
    /\ tpc' = [tpc EXCEPT ![t] = "begin_header"]
    /\ tkey' = [tkey EXCEPT ![t] = 0]
    /\ UNCHANGED <<treePages, root_page_id_, latch, todo, ctx, tpage, rets, iter, emitted>>
    /\ UNCHANGED <<replacerVars, poolVars, lmVars, txVars, guardVars>>

\* the reader takes the read latch of the root and lets go of the header page;
\* with no root, page INVALID_PAGE_ID is fetched
ReaderRoot(t) ==
    /\ tpc[t] \in {"get_header", "begin_header"}
    /\ IF root_page_id_ = INVALID_PAGE_ID
       THEN /\ tpc' = [tpc EXCEPT ![t] = "crashed"]
            /\ UNCHANGED tpage
       ELSE /\ ReadLatchFree(root_page_id_)
            /\ tpage' = [tpage EXCEPT ![t] = root_page_id_]
            /\ tpc' = [tpc EXCEPT ![t] = IF tpc[t] = "get_header" THEN "get_descend"
                                         ELSE "begin_descend"]
    /\ UNCHANGED <<treePages, root_page_id_, latch, tkey, todo, ctx, rets, iter, emitted>>
    /\ UNCHANGED <<replacerVars, poolVars, lmVars, txVars, guardVars>>

\* the child that the reader goes down to: Find(key) in GetValue, ValueAt(0) in
\* Begin
ReaderChild(t) ==
    IF tpc[t] = "get_descend" THEN InternalFind(treePages[tpage[t]], tkey[t])
    ELSE treePages[tpage[t]].array_[1].second

\* one turn of the descent of a reader
ReaderDescend(t) ==
    /\ tpc[t] \in {"get_descend", "begin_descend"}
    /\ ~IsLeafPage(treePages[tpage[t]])
    /\ ReadLatchFree(ReaderChild(t))
    /\ tpage' = [tpage EXCEPT ![t] = ReaderChild(t)]
    /\ UNCHANGED <<treePages, root_page_id_, latch, tpc, tkey, todo, ctx, rets, iter, emitted>>
    /\ UNCHANGED <<replacerVars, poolVars, lmVars, txVars, guardVars>>

\* GetValue has reached the leaf: it returns what its caller, who keeps nothing
\* of it, asked for, and its guard goes out of scope
GetValueLeaf(t) ==
    /\ tpc[t] = "get_descend"
    /\ IsLeafPage(treePages[tpage[t]])
    /\ tpc' = [tpc EXCEPT ![t] = "idle"]
    /\ tpage' = [tpage EXCEPT ![t] = INVALID_PAGE_ID]
    /\ UNCHANGED <<treePages, root_page_id_, latch, tkey, todo, ctx, rets, iter, emitted>>
    /\ UNCHANGED <<replacerVars, poolVars, lmVars, txVars, guardVars>>

\* Begin has reached the leftmost leaf: it returns the iterator, and its guard
\* goes out of scope
BeginLeaf(t) ==
    /\ tpc[t] = "begin_descend"
    /\ IsLeafPage(treePages[tpage[t]])
    /\ tpc' = [tpc EXCEPT ![t] = "idle"]
    /\ tpage' = [tpage EXCEPT ![t] = INVALID_PAGE_ID]
    /\ UNCHANGED <<treePages, root_page_id_, latch, tkey, todo, ctx, rets, iter, emitted>>
    /\ UNCHANGED <<replacerVars, poolVars, lmVars, txVars, guardVars>>

NextCrab ==
    \/ \E t \in Threads : \E key \in ThreadKeys(t) : GetValueHeader(t, key)
    \/ \E t \in Threads : BeginHeader(t)
    \/ \E t \in Threads : ReaderRoot(t)
    \/ \E t \in Threads : ReaderDescend(t)
    \/ \E t \in Threads : GetValueLeaf(t)
    \/ \E t \in Threads : BeginLeaf(t)
    \/ \E t \in Threads : InsertStart(t, CrabNewKey(t))
    \/ \E t \in Threads : InsertRoot(t)
    \/ \E t \in Threads : InsertDescend(t)
    \/ \E t \in Threads : InsertLeaf(t)
    \/ \E t \in Threads : \E key \in CrabRemoveKeys(t) : RemoveStart(t, key)
    \/ \E t \in Threads : RemoveRoot(t)
    \/ \E t \in Threads : RemoveChild(t)
    \/ \E t \in Threads : RemoveLeaf(t)

InitCrab ==
    /\ InitOutsideTree
    /\ treePages = StartTree.pages
    /\ root_page_id_ = StartTree.root
    /\ latch = EmptyMap
    /\ tpc = [t \in Threads |-> "idle"]
    /\ tkey = [t \in Threads |-> 0]
    /\ ctx = [t \in Threads |-> NoContext]
    /\ tpage = [t \in Threads |-> INVALID_PAGE_ID]
    /\ rets = [t \in Threads |-> {<<key, TRUE>> : key \in ThreadKeys(t)}]
    /\ iter = NoIter
    /\ emitted = << >>
    /\ todo = [t \in Threads |-> {CrabNewKey(t)}]

SpecCrab == InitCrab /\ [][NextCrab]_vars

\* the thread is at the leaf of Remove, before DeleteEntry
AtRemoveLeaf(t) == tpc[t] = "remove_descend" /\ IsLeafPage(treePages[tpage[t]])

\* what DeleteEntry can do in the step of thread t
DeleteOutcomes(t) ==
    IF AtRemoveLeaf(t)
    THEN {DeleteEntry(Tree, ctx[t], tkey[t], oob) : oob \in OobOutcomes}
    ELSE {}

\* the pages whose write latch thread t asks for in its next step
WantsWrite(t) ==
    IF tpc[t] \in {"header", "remove_header"} THEN {root_page_id_} \ {INVALID_PAGE_ID}
    ELSE IF tpc[t] \in {"descend", "remove_descend"} /\ ~IsLeafPage(treePages[tpage[t]])
    THEN {InternalFind(treePages[tpage[t]], tkey[t])}
    ELSE UNION {res.fetched : res \in DeleteOutcomes(t)}

\* the pages whose read latch thread t asks for in its next step
WantsRead(t) ==
    IF tpc[t] \in {"get_header", "begin_header"} THEN {root_page_id_} \ {INVALID_PAGE_ID}
    ELSE IF tpc[t] \in {"get_descend", "begin_descend"} /\ ~IsLeafPage(treePages[tpage[t]])
    THEN {ReaderChild(t)}
    ELSE UNION {res.read : res \in DeleteOutcomes(t)}

\* thread t waits for a latch that thread u holds
LatchWaitsFor(t, u) ==
    /\ t # u
    /\ \/ WantsWrite(t) \cap (Held(u) \cup ReadHeld(u)) # {}
       \/ WantsRead(t) \cap Held(u) # {}

\* a set of threads each of which waits for a latch held by another of the set
LatchCycle ==
    \E S \in SUBSET Threads \ {{}} : \A t \in S : \E u \in S : LatchWaitsFor(t, u)

\* the internal pages of the tree that have page_id as a child
ParentsOf(page_id) ==
    {p \in 1..Len(treePages) :
        /\ ~IsLeafPage(treePages[p])
        /\ \E i \in 1..Len(treePages[p].array_) : treePages[p].array_[i].second = page_id}

\* header -> root -> leaf: a thread asks for the root while it holds the header
\* page, and for a child while it holds the page above
TopDown(t) ==
    /\ tpc[t] \in {"header", "remove_header", "get_header", "begin_header"}
          => HEADER_PAGE_ID \in Held(t) \cup ReadHeld(t)
    /\ tpc[t] \in {"descend", "remove_descend", "get_descend", "begin_descend"}
          => tpage[t] \in Held(t) \cup ReadHeld(t)

\* a sibling is latched only while the thread holds the write latch of its parent
SiblingUnderParent(t) ==
    \A res \in DeleteOutcomes(t) :
        \A sibling \in res.fetched : ParentsOf(sibling) \cap Held(t) # {}

\* a thread never asks for the latch of a page it holds
NeverAgain(t) ==
    /\ (WantsWrite(t) \cup WantsRead(t)) \cap ReadHeld(t) = {}
    /\ ~AtRemoveLeaf(t) => WantsWrite(t) \cap Held(t) = {}
    /\ \A res \in DeleteOutcomes(t) : ~res.again

(***************************************************************************)
(* C31.  No interleaving of GetValue, Insert, Remove and Begin on one tree *)
(* reaches a state in which a set of threads each wait for a page latch    *)
(* held by another thread of the set: a thread asks for the root while it  *)
(* holds the header page and for a child while it holds the page above, a  *)
(* sibling is latched only while its parent is held exclusively, and a     *)
(* thread never asks for the latch of a page it already holds.             *)
(***************************************************************************)
C31_NoLatchWaitCycle ==
    /\ ~LatchCycle
    /\ \A t \in Threads : TopDown(t) /\ SiblingUnderParent(t) /\ NeverAgain(t)

\* a Remove at its leaf waits for the write latch of a sibling that the other
\* thread holds a latch of
C31_RemoveWaitsForSibling ==
    \E t \in Threads, u \in Threads :
        /\ t # u
        /\ AtRemoveLeaf(t)
        /\ \E res \in DeleteOutcomes(t) : res.fetched \cap (Held(u) \cup ReadHeld(u)) # {}

=============================================================================
